---- MODULE Spec2Model ----
(***************************************************************************)
(* A model of the red-side proxy factory of near-membrane (src/src/red.ts) *)
(* together with the part of the ECMAScript object model it relies on      *)
(* (ordinary objects, property descriptors, Proxy invariant enforcement).  *)
(* "blue" is the host realm, "red" the guest realm.                        *)
(***************************************************************************)
EXTENDS Integers, Sequences, FiniteSets, TLC

VARIABLES
    host,            \* the blue heap: host id -> host object
    prox,            \* the red proxies minted so far (a sequence of records)
    blueMap,         \* MembraneBroker.blueMap: host id -> proxy index (0: none)
    redMap,          \* MembraneBroker.redMap: proxy index -> host id (0: none)
    distortionMap,   \* MembraneBroker.distortionMap: host id -> host id (0: none)
    garr,            \* the red arrays allocated by getRedArray (their elements)
    handed,          \* history: host id -> set of values getRedValue returned for it
    hostOps,         \* number of host-side mutations performed
    guestOps,        \* number of guest-side operations performed
    last,            \* the last operation and its completion
    win              \* the arguments of aggregateWindowDescriptors and the map it returned

vars == <<host, prox, blueMap, redMap, distortionMap, garr, handed, hostOps, guestOps, last, win>>

(***************************************************************************)
(* Bounds of the model.                                                    *)
(***************************************************************************)
MaxProxies == 3
MaxArrays == 4
MaxHostOps == 2
MaxGuestOps == 3
MaxDepth == 4

(***************************************************************************)
(* Values.  A value is a pair <<tag, n>>.                                  *)
(***************************************************************************)
Undef == <<"undef", 0>>
Null == <<"null", 0>>
Prim(n) == <<"prim", n>>
H(i) == <<"host", i>>
W(i) == <<"wrap", i>>
GA(i) == <<"garr", i>>
\* %Object.prototype% of each realm; the two are linked when the environment is built
BlueObjectProto == <<"bintr", 0>>
RedObjectProto == <<"rintr", 0>>

IsHost(v) == v[1] = "host"
IsWrap(v) == v[1] = "wrap"
IsPrimitive(v) == v[1] = "prim"

\* the key Symbol.for('@@lockerLiveValue')
LockerLiveValueMarkerSymbol == "marker"
\* a well-known symbol used as an attribute key, e.g. Symbol.iterator
SymbolIterator == "@@iterator"
Keys == {"x", "y", LockerLiveValueMarkerSymbol, SymbolIterator}

(***************************************************************************)
(* Property descriptors.                                                   *)
(***************************************************************************)
NoDesc == [k |-> "none", v |-> Undef, w |-> FALSE, e |-> FALSE, c |-> FALSE, g |-> Undef, s |-> Undef]
DataDesc(v, w, e, c) == [k |-> "data", v |-> v, w |-> w, e |-> e, c |-> c, g |-> Undef, s |-> Undef]
AccDesc(g, s, e, c) == [k |-> "acc", v |-> Undef, w |-> FALSE, e |-> e, c |-> c, g |-> g, s |-> s]
NoProps == [k \in Keys |-> NoDesc]

\* a (possibly partial) descriptor object handed to defineProperty: has = the fields present
PartialOf(d) ==
    [has |-> IF d.k = "data" THEN {"v", "w", "e", "c"} ELSE {"g", "s", "e", "c"},
     v |-> d.v, w |-> d.w, e |-> d.e, c |-> d.c, g |-> d.g, s |-> d.s]
PartialValue(v) ==
    [has |-> {"v"}, v |-> v, w |-> FALSE, e |-> FALSE, c |-> FALSE, g |-> Undef, s |-> Undef]

IsAccessorPartial(pd) == pd.has \cap {"g", "s"} # {}
IsDataPartial(pd) == pd.has \cap {"v", "w"} # {}
IsGenericPartial(pd) == ~IsAccessorPartial(pd) /\ ~IsDataPartial(pd)

ApplyFields(base, pd) ==
    [k |-> base.k,
     v |-> IF "v" \in pd.has THEN pd.v ELSE base.v,
     w |-> IF "w" \in pd.has THEN pd.w ELSE base.w,
     e |-> IF "e" \in pd.has THEN pd.e ELSE base.e,
     c |-> IF "c" \in pd.has THEN pd.c ELSE base.c,
     g |-> IF "g" \in pd.has THEN pd.g ELSE base.g,
     s |-> IF "s" \in pd.has THEN pd.s ELSE base.s]

\* ECMAScript ValidateAndApplyPropertyDescriptor: [ok, desc]
ValidateAndApply(cur, ext, pd) ==
    IF cur.k = "none" THEN
        IF ~ext THEN [ok |-> FALSE, desc |-> cur]
        ELSE IF IsAccessorPartial(pd)
             THEN [ok |-> TRUE, desc |-> ApplyFields(AccDesc(Undef, Undef, FALSE, FALSE), pd)]
             ELSE [ok |-> TRUE, desc |-> ApplyFields(DataDesc(Undef, FALSE, FALSE, FALSE), pd)]
    ELSE IF pd.has = {} THEN [ok |-> TRUE, desc |-> cur]
    ELSE IF ~cur.c /\ (("c" \in pd.has /\ pd.c) \/ ("e" \in pd.has /\ pd.e # cur.e))
         THEN [ok |-> FALSE, desc |-> cur]
    ELSE IF IsGenericPartial(pd) THEN [ok |-> TRUE, desc |-> ApplyFields(cur, pd)]
    ELSE IF (cur.k = "data") # IsDataPartial(pd) THEN
        IF ~cur.c THEN [ok |-> FALSE, desc |-> cur]
        ELSE IF cur.k = "data"
             THEN [ok |-> TRUE, desc |-> ApplyFields(AccDesc(Undef, Undef, cur.e, cur.c), pd)]
             ELSE [ok |-> TRUE, desc |-> ApplyFields(DataDesc(Undef, FALSE, cur.e, cur.c), pd)]
    ELSE IF cur.k = "data" THEN
        IF ~cur.c /\ ~cur.w /\ (("w" \in pd.has /\ pd.w) \/ ("v" \in pd.has /\ pd.v # cur.v))
        THEN [ok |-> FALSE, desc |-> cur]
        ELSE [ok |-> TRUE, desc |-> ApplyFields(cur, pd)]
    ELSE
        IF ~cur.c /\ (("s" \in pd.has /\ pd.s # cur.s) \/ ("g" \in pd.has /\ pd.g # cur.g))
        THEN [ok |-> FALSE, desc |-> cur]
        ELSE [ok |-> TRUE, desc |-> ApplyFields(cur, pd)]

IsCompatiblePropertyDescriptor(ext, pd, cur) == ValidateAndApply(cur, ext, pd).ok

(***************************************************************************)
(* Ordinary objects: [props, proto, ext].                                  *)
(***************************************************************************)
OwnKeysOf(o) == {k \in Keys : o.props[k].k # "none"}

\* OrdinaryDefineOwnProperty: [ok, obj]
OrdDefine(o, key, pd) ==
    LET r == ValidateAndApply(o.props[key], o.ext, pd)
    IN [ok |-> r.ok, obj |-> IF r.ok THEN [o EXCEPT !.props[key] = r.desc] ELSE o]

\* OrdinaryDelete: [ok, obj]
OrdDelete(o, key) ==
    IF o.props[key].k = "none" THEN [ok |-> TRUE, obj |-> o]
    ELSE IF o.props[key].c THEN [ok |-> TRUE, obj |-> [o EXCEPT !.props[key] = NoDesc]]
    ELSE [ok |-> FALSE, obj |-> o]

\* SetIntegrityLevel(o, sealed) / (o, frozen), TestIntegrityLevel
SealObj(o) ==
    [o EXCEPT !.ext = FALSE,
              !.props = [k \in Keys |-> IF o.props[k].k = "none" THEN NoDesc
                                        ELSE [o.props[k] EXCEPT !.c = FALSE]]]
FreezeObj(o) ==
    [o EXCEPT !.ext = FALSE,
              !.props = [k \in Keys |-> IF o.props[k].k = "none" THEN NoDesc
                                        ELSE IF o.props[k].k = "data"
                                        THEN [o.props[k] EXCEPT !.c = FALSE, !.w = FALSE]
                                        ELSE [o.props[k] EXCEPT !.c = FALSE]]]
IsSealedObj(o) == ~o.ext /\ \A k \in OwnKeysOf(o) : ~o.props[k].c
IsFrozenObj(o) ==
    ~o.ext /\ \A k \in OwnKeysOf(o) : ~o.props[k].c /\ (o.props[k].k = "data" => ~o.props[k].w)

(***************************************************************************)
(* Completions.  Every operation of the membrane maps a machine state m    *)
(* (the heap and broker fields it may change) to a record [m, val, exc].   *)
(***************************************************************************)
NoExc == [realm |-> "none", cls |-> "none", msg |-> Undef]
RedError(cls, msg) == [realm |-> "red", cls |-> cls, msg |-> msg]
BlueError(cls, msg) == [realm |-> "blue", cls |-> cls, msg |-> msg]
RedTypeError == RedError("TypeError", Undef)
Ret(m, v) == [m |-> m, val |-> v, exc |-> NoExc]
Throw(m, e) == [m |-> m, val |-> Undef, exc |-> e]
Threw(r) == r.exc.realm # "none"

\* the machine state assembled from the variables
\* cb: the re-entry the environment performs during this crossing (none by default);
\* obs: the events of the crossing (a shadow target being populated, a re-entrant observation)
NoCallback == [h |-> 0, w |-> 0, key |-> "none"]
Cur(oracle, regFail) ==
    [host |-> host, prox |-> prox, bmap |-> blueMap, rmap |-> redMap, garr |-> garr,
     oracle |-> oracle, regFail |-> regFail, calls |-> <<>>, ovf |-> FALSE,
     cb |-> NoCallback, obs |-> <<>>]

NoOracle == [kind |-> "ret", val |-> Undef, exc |-> NoExc]

\* what a host introspection of h throws, if anything (a revoked blue proxy makes the
\* red built-in throw a red TypeError; a blue proxy whose traps throw throws its own error)
HostFailure(m, h) ==
    IF m.host[h].mode = "revoked" THEN RedTypeError
    ELSE IF m.host[h].mode = "throws" THEN BlueError("Error", Prim(0))
    ELSE NoExc

\* Every function of the factory is reached through one dispatcher, so that the mutually
\* recursive functions (a conversion creates a proxy, whose traps convert again) are
\* defined once each; Call(f, a) applies function f to the argument tuple a.
RECURSIVE Call(_, _)

(***************************************************************************)
(* MembraneBroker (the environment object handed to the factory).          *)
(***************************************************************************)
\* blueEnv.setRefMapEntries(red, blue): double index
setRefMapEntries(m, w, blue) ==
    IF m.regFail THEN Throw(m, BlueError("RangeError", Prim(0)))
    ELSE Ret([m EXCEPT !.rmap[w] = blue, !.bmap[blue] = w], Undef)

\* blueEnv.getBlueValue(red) for the red values the model passes in
getBlueValue(m, red) ==
    IF IsWrap(red) THEN (IF m.rmap[red[2]] # 0 THEN H(m.rmap[red[2]]) ELSE Undef)
    ELSE IF red = RedObjectProto THEN BlueObjectProto
    ELSE red

(***************************************************************************)
(* The factory.                                                            *)
(***************************************************************************)
\* fault variant: the distortion table is not consulted
getDistortedValue_Skipped(target) == target

getDistortedValue(target) ==
    IF distortionMap[target] = 0 THEN target ELSE distortionMap[target]

BrokenMeta ==
    [proto |-> Null, descs |-> NoProps, isFrozen |-> FALSE, isSealed |-> FALSE,
     isExtensible |-> FALSE, isBroken |-> TRUE]

\* The extraction reads the parent (step 1), the attribute map (step 2), the lifecycle
\* (step 3) and probes the target (step 4).  The step at which the introspection of o
\* throws, 0 when none does: a revoked blue Proxy, or one whose traps all throw, fails the
\* first step; a blue Proxy may also throw from its ownKeys trap only, from its isExtensible
\* trap only, or revoke itself in the last trap the extraction runs, which fails the probe.
ExtractionFailsAt(o) ==
    IF o.mode \in {"throws", "revoked"} THEN 1
    ELSE IF o.mode = "throwsDescriptors" THEN 2
    ELSE IF o.mode = "throwsExtensible" THEN 3
    ELSE IF o.mode = "revokes" THEN 4
    ELSE 0

\* the target after the extraction
ExtractionEffect(m, target) ==
    IF m.host[target].mode = "revokes" THEN [m EXCEPT !.host[target].mode = "revoked"] ELSE m

\* fault variant: the catch block only marks the metadata broken
getTargetMeta_KeepsRead(m, target) ==
    LET o == m.host[target]
        failsAt == ExtractionFailsAt(o)
        done(i) == failsAt = 0 \/ i < failsAt
    IN [proto |-> IF done(1) THEN o.proto ELSE Undef,
        descs |-> IF done(2) THEN o.props ELSE NoProps,
        isFrozen |-> done(3) /\ IsFrozenObj(o),
        isSealed |-> done(3) /\ (IsFrozenObj(o) \/ IsSealedObj(o)),
        isExtensible |-> done(3) /\ (IsFrozenObj(o) \/ IsSealedObj(o) \/ o.ext),
        isBroken |-> failsAt # 0]

\* what isFrozen, isSealed and isExtensible read from o
Lifecycle(o) ==
    [isFrozen |-> IsFrozenObj(o),
     isSealed |-> IsFrozenObj(o) \/ IsSealedObj(o),
     isExtensible |-> IsFrozenObj(o) \/ IsSealedObj(o) \/ o.ext]

\* the metadata when the extraction of o throws at step failsAt (0: it does not): the
\* catch block resets the parent and the attribute map and keeps what the lifecycle reads
\* had assigned, which they have only when the probe of step 4 is what threw
MetaAfter(o, failsAt, l) ==
    IF failsAt = 0
    THEN [proto |-> o.proto, descs |-> o.props, isFrozen |-> l.isFrozen,
          isSealed |-> l.isSealed, isExtensible |-> l.isExtensible, isBroken |-> FALSE]
    ELSE [proto |-> Null, descs |-> NoProps, isFrozen |-> failsAt > 3 /\ l.isFrozen,
          isSealed |-> failsAt > 3 /\ l.isSealed,
          isExtensible |-> failsAt > 3 /\ l.isExtensible, isBroken |-> TRUE]

getTargetMeta(m, target) ==
    MetaAfter(m.host[target], ExtractionFailsAt(m.host[target]), Lifecycle(m.host[target]))

\* the empty placeholder: callable iff the blue value is
createRedShadowTarget(m, blue) ==
    [props |-> NoProps, proto |-> RedObjectProto, ext |-> TRUE]

NewProxy(m, blue, handler, meta) ==
    [target |-> blue, handler |-> handler, meta |-> meta, init |-> FALSE,
     callable |-> m.host[blue].kind = "function",
     ctor |-> m.host[blue].kind = "function" /\ m.host[blue].mode = "ok" /\ m.host[blue].hasPrototype,
     shadow |-> createRedShadowTarget(m, blue)]

\* mint a proxy record; the machine overflows when the bound on proxies is reached
Mint(m, p) ==
    IF Len(m.prox) >= MaxProxies THEN [m EXCEPT !.ovf = TRUE]
    ELSE [m EXCEPT !.prox = Append(m.prox, p)]

\* fault variant: the proxy of a broken target is created but revoke() is never called
getRevokedRedProxy_NotRevoked(m, blue) ==
    LET m1 == Mint(m, NewProxy(m, blue, "static", BrokenMeta))
        w == Len(m1.prox)
    IN IF m1.ovf THEN Ret(m1, Undef)
       ELSE LET r == setRefMapEntries(m1, w, blue)
            IN IF Threw(r) THEN r ELSE Ret(r.m, W(w))

getRevokedRedProxy(m, blue) ==
    LET m1 == Mint(m, NewProxy(m, blue, "revoked", BrokenMeta))
        w == Len(m1.prox)
    IN IF m1.ovf THEN Ret(m1, Undef)
       ELSE LET r == setRefMapEntries(m1, w, blue)
            IN IF Threw(r) THEN r ELSE Ret(r.m, W(w))

\* What introspecting a blue value runs besides the built-ins: when the value is a blue
\* Proxy, its traps are host code, and host code that holds a guest function may call it.
\* The guest function is called once and evaluates (key in w) on a proxy the guest holds;
\* what it sees is recorded.  val is undefined: the introspection itself is getTargetMeta.
HostIntrospection(m, target) ==
    IF m.cb.h = target /\ m.host[target].exotic /\ m.host[target].mode = "ok"
       /\ m.cb.w \in 1..Len(m.prox)
    THEN LET r == Call("ProxyHas", <<[m EXCEPT !.cb = NoCallback], m.cb.w, m.cb.key, MaxDepth>>)
         IN Ret([r.m EXCEPT !.obs = Append(@, [ev |-> "observe", w |-> m.cb.w, key |-> m.cb.key,
                                               seen |-> IF Threw(r) THEN <<"threw", r.exc>>
                                                        ELSE <<"returned", r.val>>])], Undef)
    ELSE Ret(m, Undef)

\* fault variant: the marker is ignored
createRedProxy_AlwaysStatic(m0, blue0) ==
    LET blue == getDistortedValue(blue0)
        mi == HostIntrospection(m0, blue).m
        meta == getTargetMeta(mi, blue)
        m == ExtractionEffect(mi, blue)
        HandleConstructor ==
            "static"
        r1 == IF meta.isBroken THEN Call("getRevokedRedProxy", <<m, blue>>)
              ELSE LET m1 == Mint(m, NewProxy(m, blue, HandleConstructor, meta))
                   IN Ret(m1, W(Len(m1.prox)))
    IN IF Threw(r1) \/ r1.m.ovf THEN r1
       ELSE LET r2 == setRefMapEntries(r1.m, r1.val[2], blue)
            IN IF Threw(r2) THEN Throw(r2.m, RedError("Error", Prim(99)))
               ELSE Ret(r2.m, r1.val)

\* fault variant: the proxy is never registered in the maps
createRedProxy_Unregistered(m0, blue0) ==
    LET blue == getDistortedValue(blue0)
        mi == HostIntrospection(m0, blue).m
        meta == getTargetMeta(mi, blue)
        m == ExtractionEffect(mi, blue)
        HandleConstructor ==
            IF meta.descs[LockerLiveValueMarkerSymbol].k # "none" THEN "dynamic" ELSE "static"
    IN IF meta.isBroken THEN Call("getRevokedRedProxy", <<m, blue>>)
       ELSE LET m1 == Mint(m, NewProxy(m, blue, HandleConstructor, meta))
            IN Ret(m1, W(Len(m1.prox)))

createRedProxy(m0, blue0) ==
    LET blue == getDistortedValue(blue0)
        mi == HostIntrospection(m0, blue).m
        meta == getTargetMeta(mi, blue)
        m == ExtractionEffect(mi, blue)
        HandleConstructor ==
            IF meta.descs[LockerLiveValueMarkerSymbol].k # "none" THEN "dynamic" ELSE "static"
        r1 == IF meta.isBroken THEN Call("getRevokedRedProxy", <<m, blue>>)
              ELSE LET m1 == Mint(m, NewProxy(m, blue, HandleConstructor, meta))
                   IN Ret(m1, W(Len(m1.prox)))
    IN IF Threw(r1) \/ r1.m.ovf THEN r1
       ELSE LET r2 == setRefMapEntries(r1.m, r1.val[2], blue)
            IN IF Threw(r2) THEN Throw(r2.m, RedError("Error", Prim(99)))
               ELSE Ret(r2.m, r1.val)

\* the order in which the keys of an object are visited; symbol keys come last
KeyOrder == <<"x", "y", LockerLiveValueMarkerSymbol, SymbolIterator>>
IsSymbolKey(k) == k \in {LockerLiveValueMarkerSymbol, SymbolIterator}

StackOverflow == RedError("RangeError", Undef)


getRedFunction(m, blueFn) ==
    IF m.bmap[blueFn] = 0 THEN Call("createRedProxy", <<m, blueFn>>) ELSE Ret(m, W(m.bmap[blueFn]))

\* map(blueArray, getRedValue), element i onwards; val is the sequence converted so far
getRedArrayElems(m, elems, i, acc, fuel) ==
    IF i > Len(elems) THEN Ret(m, acc)
    ELSE LET r == Call("getRedValue", <<m, elems[i], fuel>>)
         IN IF Threw(r) \/ r.m.ovf THEN r
            ELSE Call("getRedArrayElems", <<r.m, elems, i + 1, Append(acc, r.val), fuel>>)

\* fault variant: a conversion whose elements equal those of an array allocated earlier
\* returns that array instead of allocating
getRedArray_Memoized(m, blueArray, fuel) ==
    IF fuel = 0 THEN Throw(m, StackOverflow)
    ELSE IF m.host[blueArray].mode # "ok" THEN Throw(m, HostFailure(m, blueArray))
    ELSE LET r == Call("getRedArrayElems", <<m, m.host[blueArray].elems, 1, <<>>, fuel - 1>>)
         IN IF Threw(r) \/ r.m.ovf THEN r
            ELSE IF \E i \in 1..Len(r.m.garr) : r.m.garr[i] = r.val
            THEN Ret(r.m, GA(CHOOSE i \in 1..Len(r.m.garr) : r.m.garr[i] = r.val))
            ELSE IF Len(r.m.garr) >= MaxArrays THEN Ret([r.m EXCEPT !.ovf = TRUE], Undef)
            ELSE Ret([r.m EXCEPT !.garr = Append(r.m.garr, r.val)], GA(Len(r.m.garr) + 1))

getRedArray(m, blueArray, fuel) ==
    IF fuel = 0 THEN Throw(m, StackOverflow)
    ELSE IF m.host[blueArray].mode # "ok" THEN Throw(m, HostFailure(m, blueArray))
    ELSE LET r == Call("getRedArrayElems", <<m, m.host[blueArray].elems, 1, <<>>, fuel - 1>>)
         IN IF Threw(r) \/ r.m.ovf THEN r
            ELSE IF Len(r.m.garr) >= MaxArrays THEN Ret([r.m EXCEPT !.ovf = TRUE], Undef)
            ELSE Ret([r.m EXCEPT !.garr = Append(r.m.garr, r.val)], GA(Len(r.m.garr) + 1))

\* fault variant: the final branch is missing, so a primitive is answered with undefined
getRedValue_NoFallThrough(m, blue, fuel) ==
    IF blue = Null \/ blue = Undef THEN Ret(m, blue)
    ELSE IF IsHost(blue) THEN
        LET h == blue[2] IN
        IF m.host[h].kind = "function" THEN Call("getRedFunction", <<m, h>>)
        ELSE IF m.host[h].mode = "revoked" THEN Call("createRedProxy", <<m, h>>)
        ELSE IF m.host[h].kind = "array" THEN Call("getRedArray", <<m, h, fuel>>)
        ELSE IF m.bmap[h] = 0 THEN Call("createRedProxy", <<m, h>>)
        ELSE Ret(m, W(m.bmap[h]))
    ELSE IF blue = BlueObjectProto THEN Ret(m, RedObjectProto)
    ELSE Ret(m, Undef)

getRedValue(m, blue, fuel) ==
    IF blue = Null \/ blue = Undef THEN Ret(m, blue)
    ELSE IF IsHost(blue) THEN
        LET h == blue[2] IN
        IF m.host[h].kind = "function" THEN Call("getRedFunction", <<m, h>>)
        ELSE IF m.host[h].mode = "revoked" THEN Call("createRedProxy", <<m, h>>)
        ELSE IF m.host[h].kind = "array" THEN Call("getRedArray", <<m, h, fuel>>)
        ELSE IF m.bmap[h] = 0 THEN Call("createRedProxy", <<m, h>>)
        ELSE Ret(m, W(m.bmap[h]))
    ELSE IF blue = BlueObjectProto THEN Ret(m, RedObjectProto)
    ELSE Ret(m, blue)

\* val is the red descriptor
getRedDescriptor(m, blueDescriptor, fuel) ==
    IF blueDescriptor.k = "data" THEN
        LET r == Call("getRedValue", <<m, blueDescriptor.v, fuel>>)
        IN IF Threw(r) \/ r.m.ovf THEN r
           ELSE Ret(r.m, [blueDescriptor EXCEPT !.v = r.val])
    ELSE
        LET rs == IF IsHost(blueDescriptor.s) /\ m.host[blueDescriptor.s[2]].kind = "function"
                  THEN Call("getRedFunction", <<m, blueDescriptor.s[2]>>) ELSE Ret(m, blueDescriptor.s)
        IN IF Threw(rs) \/ rs.m.ovf THEN rs
           ELSE LET rg == IF IsHost(blueDescriptor.g) /\ rs.m.host[blueDescriptor.g[2]].kind = "function"
                          THEN Call("getRedFunction", <<rs.m, blueDescriptor.g[2]>>)
                          ELSE Ret(rs.m, blueDescriptor.g)
                IN IF Threw(rg) \/ rg.m.ovf THEN rg
                   ELSE Ret(rg.m, [blueDescriptor EXCEPT !.s = rs.val, !.g = rg.val])

\* the shadow target after the install
installDescriptorIntoShadowTarget(shadowTarget, key, originalDescriptor) ==
    LET shadowTargetDescriptor == shadowTarget.props[key] IN
    IF shadowTargetDescriptor.k # "none" THEN
        IF shadowTargetDescriptor.c
        THEN OrdDefine(shadowTarget, key, PartialOf(originalDescriptor)).obj
        ELSE IF shadowTargetDescriptor.k = "data" /\ shadowTargetDescriptor.w
        THEN [shadowTarget EXCEPT !.props[key].v = originalDescriptor.v]
        ELSE shadowTarget
    ELSE OrdDefine(shadowTarget, key, PartialOf(originalDescriptor)).obj

\* the for-in loop over the captured descriptors, from position i of the key order
copyRedOwnDescriptorsFrom(m, w, blueDescriptors, i, fuel) ==
    IF i > Len(KeyOrder) THEN Ret(m, Undef)
    ELSE LET key == KeyOrder[i] IN
         IF IsSymbolKey(key) \/ blueDescriptors[key].k = "none"
         THEN Call("copyRedOwnDescriptorsFrom", <<m, w, blueDescriptors, i + 1, fuel>>)
         ELSE LET r == Call("getRedDescriptor", <<m, blueDescriptors[key], fuel>>)
              IN IF Threw(r) \/ r.m.ovf THEN r
                 ELSE Call("copyRedOwnDescriptorsFrom", <<
                        [r.m EXCEPT !.prox[w].shadow =
                            installDescriptorIntoShadowTarget(r.m.prox[w].shadow, key, r.val)],
                        w, blueDescriptors, i + 1, fuel>>)

copyRedOwnDescriptors(m, w, blueDescriptors, fuel) ==
    Call("copyRedOwnDescriptorsFrom", <<m, w, blueDescriptors, 1, fuel>>)

copyBlueDescriptorIntoShadowTarget(m, w, originalTarget, key, fuel) ==
    IF m.host[originalTarget].mode # "ok" THEN Throw(m, HostFailure(m, originalTarget))
    ELSE LET normalizedBlueDescriptor == m.host[originalTarget].props[key] IN
         IF normalizedBlueDescriptor.k = "none" THEN Ret(m, Undef)
         ELSE LET r == Call("getRedDescriptor", <<m, normalizedBlueDescriptor, fuel>>)
              IN IF Threw(r) \/ r.m.ovf THEN r
                 ELSE LET d == OrdDefine(r.m.prox[w].shadow, key, PartialOf(r.val))
                      IN Ret([r.m EXCEPT !.prox[w].shadow = d.obj,
                                         !.obs = Append(@, [ev |-> "install", w |-> w, key |-> key,
                                                            seen |-> <<"returned", d.ok>>])], Undef)

lockShadowTargetFrom(m, w, originalTarget, i, fuel) ==
    IF i > Len(KeyOrder)
    THEN Ret([m EXCEPT !.prox[w].shadow.ext = FALSE], Undef)
    ELSE IF m.host[originalTarget].props[KeyOrder[i]].k = "none"
    THEN Call("lockShadowTargetFrom", <<m, w, originalTarget, i + 1, fuel>>)
    ELSE LET r == Call("copyBlueDescriptorIntoShadowTarget", <<m, w, originalTarget, KeyOrder[i], fuel>>)
         IN IF Threw(r) \/ r.m.ovf THEN r
            ELSE Call("lockShadowTargetFrom", <<r.m, w, originalTarget, i + 1, fuel>>)

lockShadowTarget(m, w, originalTarget, fuel) ==
    IF m.host[originalTarget].mode # "ok" THEN Throw(m, HostFailure(m, originalTarget))
    ELSE Call("lockShadowTargetFrom", <<m, w, originalTarget, 1, fuel>>)

\* Reflect.setPrototypeOf on an ordinary object (the chain past a proxy is not walked)
OrdSetPrototypeOf(o, proto) ==
    IF proto = o.proto THEN [ok |-> TRUE, obj |-> o]
    ELSE IF ~o.ext THEN [ok |-> FALSE, obj |-> o]
    ELSE [ok |-> TRUE, obj |-> [o EXCEPT !.proto = proto]]

\* fault variant: initialize is never replaced by the noop
initialize_Unguarded(m, w, fuel) ==
    LET meta == m.prox[w].meta
        m0 == [m EXCEPT !.prox[w].init = TRUE,
                        !.obs = Append(@, [ev |-> "populate", w |-> w, key |-> "none",
                                           seen |-> <<"none", Undef>>])]
        r1 == Call("getRedValue", <<m0, meta.proto, fuel>>)
    IN IF Threw(r1) \/ r1.m.ovf THEN r1
       ELSE LET m1 == [r1.m EXCEPT !.prox[w].shadow =
                           OrdSetPrototypeOf(r1.m.prox[w].shadow, r1.val).obj]
                r2 == Call("copyRedOwnDescriptors", <<m1, w, meta.descs, fuel>>)
            IN IF Threw(r2) \/ r2.m.ovf THEN r2
               ELSE LET sh == r2.m.prox[w].shadow
                    IN Ret([r2.m EXCEPT !.prox[w].shadow =
                               IF meta.isFrozen THEN FreezeObj(sh)
                               ELSE IF meta.isSealed THEN SealObj(sh)
                               ELSE IF ~meta.isExtensible THEN [sh EXCEPT !.ext = FALSE]
                               ELSE sh], Undef)

\* RedStaticProxyHandler.initialize
initialize(m, w, fuel) ==
    IF m.prox[w].init THEN Ret(m, Undef)
    ELSE LET meta == m.prox[w].meta
             m0 == [m EXCEPT !.prox[w].init = TRUE,
                             !.obs = Append(@, [ev |-> "populate", w |-> w, key |-> "none",
                                                seen |-> <<"none", Undef>>])]
             r1 == Call("getRedValue", <<m0, meta.proto, fuel>>)
         IN IF Threw(r1) \/ r1.m.ovf THEN r1
            ELSE LET m1 == [r1.m EXCEPT !.prox[w].shadow =
                                OrdSetPrototypeOf(r1.m.prox[w].shadow, r1.val).obj]
                     r2 == Call("copyRedOwnDescriptors", <<m1, w, meta.descs, fuel>>)
                 IN IF Threw(r2) \/ r2.m.ovf THEN r2
                    ELSE LET sh == r2.m.prox[w].shadow
                         IN Ret([r2.m EXCEPT !.prox[w].shadow =
                                    IF meta.isFrozen THEN FreezeObj(sh)
                                    ELSE IF meta.isSealed THEN SealObj(sh)
                                    ELSE IF ~meta.isExtensible THEN [sh EXCEPT !.ext = FALSE]
                                    ELSE sh], Undef)

(***************************************************************************)
(* The blue side: Reflect.* applied to a host object, and host functions.  *)
(***************************************************************************)
\* a host function called with (this, args), as the marshal hook calls it.  The body of a
\* host function is one of: "getX" (return the own data value this.x), "setX" (store the
\* argument as this.x), "oracle" (complete as the environment decides: m.oracle).
HostInvoke(m0, fn, thisArg, args) ==
    LET m == [m0 EXCEPT !.calls = Append(@, <<fn, thisArg, args>>)] IN
    IF ~IsHost(fn) THEN Throw(m, BlueError("TypeError", Undef))
    ELSE IF m.host[fn[2]].mode = "revoked" \/ m.host[fn[2]].kind # "function"
         THEN Throw(m, BlueError("TypeError", Undef))
    ELSE IF m.host[fn[2]].mode # "ok" THEN Throw(m, HostFailure(m, fn[2]))
    ELSE IF m.host[fn[2]].beh = "getX" THEN
        IF IsHost(thisArg) /\ m.host[thisArg[2]].props["x"].k = "data"
        THEN Ret(m, m.host[thisArg[2]].props["x"].v) ELSE Ret(m, Undef)
    ELSE IF m.host[fn[2]].beh = "setX" THEN
        IF IsHost(thisArg) /\ Len(args) > 0
        THEN Ret([m EXCEPT !.host[thisArg[2]] =
                    OrdDefine(m.host[thisArg[2]], "x",
                              IF m.host[thisArg[2]].props["x"].k = "none"
                              THEN PartialOf(DataDesc(args[1], TRUE, TRUE, TRUE))
                              ELSE PartialValue(args[1])).obj], Undef)
        ELSE Ret(m, Undef)
    ELSE IF m.oracle.kind = "throw" THEN Throw(m, m.oracle.exc)
    ELSE Ret(m, m.oracle.val)

\* Reflect.get(target, key, receiver) on a host object
HostGet(m, h, key, receiver) ==
    IF m.host[h].mode # "ok" THEN Throw(m, HostFailure(m, h))
    ELSE LET d == m.host[h].props[key] IN
         IF d.k = "none" THEN
            IF IsHost(m.host[h].proto) THEN Call("HostGet", <<m, m.host[h].proto[2], key, receiver>>)
            ELSE Ret(m, Undef)
         ELSE IF d.k = "data" THEN Ret(m, d.v)
         ELSE IF d.g = Undef THEN Ret(m, Undef)
         ELSE Call("HostInvoke", <<m, d.g, receiver, <<>>>>)

\* key in target
HostHas(m, h, key) ==
    IF m.host[h].mode # "ok" THEN Throw(m, HostFailure(m, h))
    ELSE IF m.host[h].props[key].k # "none" THEN Ret(m, TRUE)
    ELSE IF IsHost(m.host[h].proto) THEN Call("HostHas", <<m, m.host[h].proto[2], key>>)
    ELSE Ret(m, FALSE)

\* Reflect.set(target, key, value, receiver) on a host object
HostSet(m, h, key, value, receiver) ==
    IF m.host[h].mode # "ok" THEN Throw(m, HostFailure(m, h))
    ELSE LET d == m.host[h].props[key] IN
         IF d.k = "none" /\ IsHost(m.host[h].proto)
         THEN Call("HostSet", <<m, m.host[h].proto[2], key, value, receiver>>)
         ELSE IF d.k = "acc" THEN
            IF d.s = Undef THEN Ret(m, FALSE)
            ELSE LET r == Call("HostInvoke", <<m, d.s, receiver, <<value>>>>)
                 IN IF Threw(r) THEN r ELSE Ret(r.m, TRUE)
         ELSE IF d.k = "data" /\ ~d.w THEN Ret(m, FALSE)
         ELSE IF ~IsHost(receiver) THEN Ret(m, FALSE)
         ELSE IF m.host[receiver[2]].mode # "ok" THEN Throw(m, HostFailure(m, receiver[2]))
         ELSE LET ro == m.host[receiver[2]]
                  e == ro.props[key]
              IN IF e.k = "acc" \/ (e.k = "data" /\ ~e.w) THEN Ret(m, FALSE)
                 ELSE LET r == OrdDefine(ro, key,
                                    IF e.k = "data" THEN PartialValue(value)
                                    ELSE PartialOf(DataDesc(value, TRUE, TRUE, TRUE)))
                      IN Ret([m EXCEPT !.host[receiver[2]] = r.obj], r.ok)

RECURSIVE HostChainHas(_, _, _)
\* whether host object goal is on the delegation chain starting at value v
HostChainHas(m, v, goal) ==
    IF ~IsHost(v) THEN FALSE
    ELSE IF v[2] = goal THEN TRUE
    ELSE HostChainHas(m, m.host[v[2]].proto, goal)

\* Reflect.setPrototypeOf(target, proto) on a host object: [ok, obj]
HostOrdSetPrototypeOf(m, h, proto) ==
    IF proto = m.host[h].proto THEN [ok |-> TRUE, obj |-> m.host[h]]
    ELSE IF ~m.host[h].ext \/ HostChainHas(m, proto, h) THEN [ok |-> FALSE, obj |-> m.host[h]]
    ELSE [ok |-> TRUE, obj |-> [m.host[h] EXCEPT !.proto = proto]]

(***************************************************************************)
(* The error boundary: redProxyApplyTrap / redProxyConstructTrap.          *)
(***************************************************************************)
Bad(r) == Threw(r) \/ r.m.ovf

\* blueEnv.getRedRef(constructor) finds a red constructor: the error constructors linked
\* when the environment is built
HasRedRef(cls) == cls \in {"Error", "RangeError", "TypeError"}

\* the catch block: what is thrown to the red caller for the value e thrown by the hook.
\* cls "null": e is null or undefined, so destructuring it throws; cls "poison": e is an
\* object whose message getter throws the blue error carried in msg.
NormalizeError(e) ==
    IF e.cls = "null" THEN RedTypeError
    ELSE IF e.cls = "poison" THEN BlueError("Error", e.msg)
    ELSE IF HasRedRef(e.cls) THEN RedError(e.cls, e.msg)
    ELSE RedError("Error", e.msg)

getBlueArgs(m, redArgArray) == [i \in 1..Len(redArgArray) |-> getBlueValue(m, redArgArray[i])]

\* fault variant: the result of the hook is returned as it is
redProxyApplyTrap_Unconverted(m, blueTarget, redThisArg, redArgArray, fuel) ==
    LET r == Call("HostInvoke", <<m, H(blueTarget), getBlueValue(m, redThisArg), getBlueArgs(m, redArgArray)>>)
    IN IF Threw(r) THEN Throw(r.m, NormalizeError(r.exc))
       ELSE r

redProxyApplyTrap(m, blueTarget, redThisArg, redArgArray, fuel) ==
    LET r == Call("HostInvoke", <<m, H(blueTarget), getBlueValue(m, redThisArg), getBlueArgs(m, redArgArray)>>)
    IN IF Threw(r) THEN Throw(r.m, NormalizeError(r.exc))
       ELSE Call("getRedValue", <<r.m, r.val, fuel>>)

\* redProxyConstructTrap without the test of redNewTarget
redProxyConstructTrap_Unchecked(m, BlueCtor, redArgArray, redNewTarget, fuel) ==
    LET r == Call("HostInvoke", <<m, H(BlueCtor), getBlueValue(m, redNewTarget), getBlueArgs(m, redArgArray)>>)
    IN IF Threw(r) THEN Throw(r.m, NormalizeError(r.exc))
       ELSE Call("getRedValue", <<r.m, r.val, fuel>>)

redProxyConstructTrap(m, BlueCtor, redArgArray, redNewTarget, fuel) ==
    IF redNewTarget = Undef THEN Throw(m, RedTypeError)
    ELSE LET r == Call("HostInvoke", <<m, H(BlueCtor), getBlueValue(m, redNewTarget), getBlueArgs(m, redArgArray)>>)
         IN IF Threw(r) THEN Throw(r.m, NormalizeError(r.exc))
            ELSE Call("getRedValue", <<r.m, r.val, fuel>>)

(***************************************************************************)
(* The red side: the two proxy handlers and the Proxy internal methods     *)
(* that call them and enforce the Proxy invariants against the shadow      *)
(* target.  w is the index of the proxy; its shadow target is              *)
(* m.prox[w].shadow and its handler's target is m.prox[w].target.          *)
(***************************************************************************)

\* RedStaticProxyHandler.apply
RedStaticProxyHandler_apply(m, w, redThisArg, redArgArray, fuel) ==
    LET i == Call("initialize", <<m, w, fuel>>)
    IN IF Bad(i) THEN i
       ELSE Call("redProxyApplyTrap", <<i.m, m.prox[w].target, redThisArg, redArgArray, fuel>>)

\* RedDynamicProxyHandler.apply
RedDynamicProxyHandler_apply(m, w, redThisArg, redArgArray, fuel) ==
    Call("redProxyApplyTrap", <<m, m.prox[w].target, redThisArg, redArgArray, fuel>>)

\* Proxy [[Call]]
ProxyCall(m, w, thisArg, args, fuel) ==
    IF fuel = 0 THEN Throw(m, StackOverflow)
    ELSE IF m.prox[w].handler = "revoked" \/ ~m.prox[w].callable THEN Throw(m, RedTypeError)
    ELSE IF m.prox[w].handler = "static"
    THEN Call("RedStaticProxyHandler_apply", <<m, w, thisArg, args, fuel - 1>>)
    ELSE Call("RedDynamicProxyHandler_apply", <<m, w, thisArg, args, fuel - 1>>)

RedStaticProxyHandler_construct(m, w, redArgArray, redNewTarget, fuel) ==
    LET i == Call("initialize", <<m, w, fuel>>)
    IN IF Bad(i) THEN i
       ELSE Call("redProxyConstructTrap", <<i.m, m.prox[w].target, redArgArray, redNewTarget, fuel>>)

RedDynamicProxyHandler_construct(m, w, redArgArray, redNewTarget, fuel) ==
    Call("redProxyConstructTrap", <<m, m.prox[w].target, redArgArray, redNewTarget, fuel>>)

\* Proxy [[Construct]]
ProxyConstruct(m, w, args, newTarget, fuel) ==
    IF fuel = 0 THEN Throw(m, StackOverflow)
    ELSE IF m.prox[w].handler = "revoked" \/ ~m.prox[w].ctor THEN Throw(m, RedTypeError)
    ELSE LET r == IF m.prox[w].handler = "static"
                  THEN Call("RedStaticProxyHandler_construct", <<m, w, args, newTarget, fuel - 1>>)
                  ELSE Call("RedDynamicProxyHandler_construct", <<m, w, args, newTarget, fuel - 1>>)
         IN IF Bad(r) THEN r
            ELSE IF r.val[1] \in {"wrap", "garr", "rintr"} THEN r
            ELSE Throw(r.m, RedTypeError)

\* Reflect.get(shadowTarget, key, receiver)
ShadowGet(m, w, key, receiver, fuel) ==
    LET d == m.prox[w].shadow.props[key]
        parent == m.prox[w].shadow.proto
    IN IF d.k = "none" THEN
            IF IsWrap(parent) THEN Call("ProxyGet", <<m, parent[2], key, receiver, fuel>>)
            ELSE Ret(m, Undef)
       ELSE IF d.k = "data" THEN Ret(m, d.v)
       ELSE IF d.g = Undef THEN Ret(m, Undef)
       ELSE IF IsWrap(d.g) THEN Call("ProxyCall", <<m, d.g[2], receiver, <<>>, fuel>>)
       ELSE Throw(m, RedTypeError)

\* fault variant: the static get trap reads the host value instead of the shadow target
RedStaticProxyHandler_get_Live(m, w, key, receiver, fuel) ==
    LET r == Call("HostGet", <<m, m.prox[w].target, key, getBlueValue(m, receiver)>>)
    IN IF Bad(r) THEN r ELSE Call("getRedValue", <<r.m, r.val, fuel>>)

RedStaticProxyHandler_get(m, w, key, receiver, fuel) ==
    LET i == Call("initialize", <<m, w, fuel>>)
    IN IF Bad(i) THEN i ELSE Call("ShadowGet", <<i.m, w, key, receiver, fuel>>)

RedDynamicProxyHandler_get(m, w, key, receiver, fuel) ==
    LET r == Call("HostGet", <<m, m.prox[w].target, key, getBlueValue(m, receiver)>>)
    IN IF Bad(r) THEN r ELSE Call("getRedValue", <<r.m, r.val, fuel>>)

GetInvariantBroken(sh, key, res) ==
    LET td == sh.props[key]
    IN td.k # "none" /\ ~td.c
       /\ \/ td.k = "data" /\ ~td.w /\ res # td.v
          \/ td.k = "acc" /\ td.g = Undef /\ res # Undef

\* Proxy [[Get]]
ProxyGet(m, w, key, receiver, fuel) ==
    IF fuel = 0 THEN Throw(m, StackOverflow)
    ELSE IF m.prox[w].handler = "revoked" THEN Throw(m, RedTypeError)
    ELSE LET r == IF m.prox[w].handler = "static"
                  THEN Call("RedStaticProxyHandler_get", <<m, w, key, receiver, fuel - 1>>)
                  ELSE Call("RedDynamicProxyHandler_get", <<m, w, key, receiver, fuel - 1>>)
         IN IF Bad(r) THEN r
            ELSE IF GetInvariantBroken(r.m.prox[w].shadow, key, r.val) THEN Throw(r.m, RedTypeError)
            ELSE r

\* key in shadowTarget
ShadowHas(m, w, key, fuel) ==
    IF m.prox[w].shadow.props[key].k # "none" THEN Ret(m, TRUE)
    ELSE IF IsWrap(m.prox[w].shadow.proto) THEN Call("ProxyHas", <<m, m.prox[w].shadow.proto[2], key, fuel>>)
    ELSE Ret(m, FALSE)

RedStaticProxyHandler_has(m, w, key, fuel) ==
    LET i == Call("initialize", <<m, w, fuel>>)
    IN IF Bad(i) THEN i ELSE Call("ShadowHas", <<i.m, w, key, fuel>>)

RedDynamicProxyHandler_has(m, w, key, fuel) == Call("HostHas", <<m, m.prox[w].target, key>>)

\* Proxy [[HasProperty]]
ProxyHas(m, w, key, fuel) ==
    IF fuel = 0 THEN Throw(m, StackOverflow)
    ELSE IF m.prox[w].handler = "revoked" THEN Throw(m, RedTypeError)
    ELSE LET r == IF m.prox[w].handler = "static"
                  THEN Call("RedStaticProxyHandler_has", <<m, w, key, fuel - 1>>)
                  ELSE Call("RedDynamicProxyHandler_has", <<m, w, key, fuel - 1>>)
             sh == r.m.prox[w].shadow
         IN IF Bad(r) THEN r
            ELSE IF ~r.val /\ sh.props[key].k # "none" /\ (~sh.props[key].c \/ ~sh.ext)
            THEN Throw(r.m, RedTypeError)
            ELSE r

RedStaticProxyHandler_getOwnPropertyDescriptor(m, w, key, fuel) ==
    LET i == Call("initialize", <<m, w, fuel>>)
    IN IF Bad(i) THEN i ELSE Ret(i.m, i.m.prox[w].shadow.props[key])

RedDynamicProxyHandler_getOwnPropertyDescriptor(m, w, key, fuel) ==
    LET target == m.prox[w].target IN
    IF m.host[target].mode # "ok" THEN Throw(m, HostFailure(m, target))
    ELSE LET blueDesc == m.host[target].props[key] IN
         IF blueDesc.k = "none" THEN Ret(m, NoDesc)
         ELSE LET c == IF ~blueDesc.c
                       THEN Call("copyBlueDescriptorIntoShadowTarget", <<m, w, target, key, fuel>>)
                       ELSE Ret(m, Undef)
              IN IF Bad(c) THEN c ELSE Call("getRedDescriptor", <<c.m, blueDesc, fuel>>)

\* Proxy [[GetOwnProperty]]; val is the descriptor, NoDesc for undefined
ProxyGetOwnProperty(m, w, key, fuel) ==
    IF fuel = 0 THEN Throw(m, StackOverflow)
    ELSE IF m.prox[w].handler = "revoked" THEN Throw(m, RedTypeError)
    ELSE LET r == IF m.prox[w].handler = "static"
                  THEN Call("RedStaticProxyHandler_getOwnPropertyDescriptor", <<m, w, key, fuel - 1>>)
                  ELSE Call("RedDynamicProxyHandler_getOwnPropertyDescriptor", <<m, w, key, fuel - 1>>)
             sh == r.m.prox[w].shadow
             td == sh.props[key]
         IN IF Bad(r) THEN r
            ELSE IF r.val.k = "none" THEN
                IF td.k # "none" /\ (~td.c \/ ~sh.ext) THEN Throw(r.m, RedTypeError) ELSE r
            ELSE IF ~IsCompatiblePropertyDescriptor(sh.ext, PartialOf(r.val), td)
            THEN Throw(r.m, RedTypeError)
            ELSE IF ~r.val.c /\ (td.k = "none" \/ td.c) THEN Throw(r.m, RedTypeError)
            ELSE IF ~r.val.c /\ r.val.k = "data" /\ ~r.val.w /\ td.w THEN Throw(r.m, RedTypeError)
            ELSE r

\* Object.defineProperty(shadowTarget, key, redPartialDesc); return true
RedStaticProxyHandler_defineProperty(m, w, key, redPartialDesc, fuel) ==
    LET i == Call("initialize", <<m, w, fuel>>)
    IN IF Bad(i) THEN i
       ELSE LET d == OrdDefine(i.m.prox[w].shadow, key, redPartialDesc)
            IN IF ~d.ok THEN Throw(i.m, RedTypeError)
               ELSE Ret([i.m EXCEPT !.prox[w].shadow = d.obj], TRUE)

getBluePartialDescriptor(m, redPartialDesc) ==
    [redPartialDesc EXCEPT
        !.v = IF "v" \in redPartialDesc.has THEN getBlueValue(m, redPartialDesc.v) ELSE @,
        !.s = IF "s" \in redPartialDesc.has THEN getBlueValue(m, redPartialDesc.s) ELSE @,
        !.g = IF "g" \in redPartialDesc.has THEN getBlueValue(m, redPartialDesc.g) ELSE @]

RedDynamicProxyHandler_defineProperty(m, w, key, redPartialDesc, fuel) ==
    LET target == m.prox[w].target
        blueDesc == getBluePartialDescriptor(m, redPartialDesc)
    IN IF m.host[target].mode # "ok" THEN Throw(m, HostFailure(m, target))
       ELSE LET d == OrdDefine(m.host[target], key, blueDesc)
                m1 == [m EXCEPT !.host[target] = d.obj]
            IN IF d.ok /\ "c" \in blueDesc.has /\ ~blueDesc.c
               THEN LET c == Call("copyBlueDescriptorIntoShadowTarget", <<m1, w, target, key, fuel>>)
                    IN IF Bad(c) THEN c ELSE Ret(c.m, TRUE)
               ELSE Ret(m1, TRUE)

\* Proxy [[DefineOwnProperty]]
ProxyDefineOwnProperty(m, w, key, pd, fuel) ==
    IF fuel = 0 THEN Throw(m, StackOverflow)
    ELSE IF m.prox[w].handler = "revoked" THEN Throw(m, RedTypeError)
    ELSE LET r == IF m.prox[w].handler = "static"
                  THEN Call("RedStaticProxyHandler_defineProperty", <<m, w, key, pd, fuel - 1>>)
                  ELSE Call("RedDynamicProxyHandler_defineProperty", <<m, w, key, pd, fuel - 1>>)
             sh == r.m.prox[w].shadow
             td == sh.props[key]
             settingConfigFalse == "c" \in pd.has /\ ~pd.c
         IN IF Bad(r) THEN r
            ELSE IF ~r.val THEN r
            ELSE IF td.k = "none" THEN
                IF ~sh.ext \/ settingConfigFalse THEN Throw(r.m, RedTypeError) ELSE r
            ELSE IF ~IsCompatiblePropertyDescriptor(sh.ext, pd, td) THEN Throw(r.m, RedTypeError)
            ELSE IF settingConfigFalse /\ td.c THEN Throw(r.m, RedTypeError)
            ELSE IF td.k = "data" /\ ~td.c /\ td.w /\ "w" \in pd.has /\ ~pd.w
            THEN Throw(r.m, RedTypeError)
            ELSE r

\* Reflect.set(shadowTarget, key, value, receiver), the receiver being proxy rw
ShadowSet(m, w, key, value, rw, fuel) ==
    LET d == m.prox[w].shadow.props[key]
        parent == m.prox[w].shadow.proto
    IN IF d.k = "none" /\ IsWrap(parent) THEN Call("ProxySet", <<m, parent[2], key, value, rw, fuel>>)
       ELSE IF d.k = "acc" THEN
            IF d.s = Undef THEN Ret(m, FALSE)
            ELSE IF ~IsWrap(d.s) THEN Throw(m, RedTypeError)
            ELSE LET c == Call("ProxyCall", <<m, d.s[2], W(rw), <<value>>, fuel>>)
                 IN IF Bad(c) THEN c ELSE Ret(c.m, TRUE)
       ELSE IF d.k = "data" /\ ~d.w THEN Ret(m, FALSE)
       ELSE LET e == Call("ProxyGetOwnProperty", <<m, rw, key, fuel>>)
            IN IF Bad(e) THEN e
               ELSE IF e.val.k = "acc" \/ (e.val.k = "data" /\ ~e.val.w) THEN Ret(e.m, FALSE)
               ELSE Call("ProxyDefineOwnProperty", <<e.m, rw, key,
                        IF e.val.k = "data" THEN PartialValue(value)
                        ELSE PartialOf(DataDesc(value, TRUE, TRUE, TRUE)), fuel>>)

\* fault variant: the static set trap writes to the host value instead of the shadow target
RedStaticProxyHandler_set_WriteThrough(m, w, key, value, rw, fuel) ==
    Call("HostSet", <<m, m.prox[w].target, key, getBlueValue(m, value), getBlueValue(m, W(rw))>>)

RedStaticProxyHandler_set(m, w, key, value, rw, fuel) ==
    LET i == Call("initialize", <<m, w, fuel>>)
    IN IF Bad(i) THEN i ELSE Call("ShadowSet", <<i.m, w, key, value, rw, fuel>>)

RedDynamicProxyHandler_set(m, w, key, value, rw, fuel) ==
    Call("HostSet", <<m, m.prox[w].target, key, getBlueValue(m, value), getBlueValue(m, W(rw))>>)

\* Proxy [[Set]]
ProxySet(m, w, key, value, rw, fuel) ==
    IF fuel = 0 THEN Throw(m, StackOverflow)
    ELSE IF m.prox[w].handler = "revoked" THEN Throw(m, RedTypeError)
    ELSE LET r == IF m.prox[w].handler = "static"
                  THEN Call("RedStaticProxyHandler_set", <<m, w, key, value, rw, fuel - 1>>)
                  ELSE Call("RedDynamicProxyHandler_set", <<m, w, key, value, rw, fuel - 1>>)
             td == r.m.prox[w].shadow.props[key]
         IN IF Bad(r) THEN r
            ELSE IF ~r.val THEN r
            ELSE IF td.k # "none" /\ ~td.c
                    /\ ((td.k = "data" /\ ~td.w /\ value # td.v) \/ (td.k = "acc" /\ td.s = Undef))
            THEN Throw(r.m, RedTypeError)
            ELSE r

RedStaticProxyHandler_deleteProperty(m, w, key, fuel) ==
    LET i == Call("initialize", <<m, w, fuel>>)
    IN IF Bad(i) THEN i
       ELSE LET d == OrdDelete(i.m.prox[w].shadow, key)
            IN Ret([i.m EXCEPT !.prox[w].shadow = d.obj], d.ok)

RedDynamicProxyHandler_deleteProperty(m, w, key, fuel) ==
    LET target == m.prox[w].target IN
    IF m.host[target].mode # "ok" THEN Throw(m, HostFailure(m, target))
    ELSE LET d == OrdDelete(m.host[target], key)
         IN Ret([m EXCEPT !.host[target] = d.obj], d.ok)

\* Proxy [[Delete]]
ProxyDelete(m, w, key, fuel) ==
    IF fuel = 0 THEN Throw(m, StackOverflow)
    ELSE IF m.prox[w].handler = "revoked" THEN Throw(m, RedTypeError)
    ELSE LET r == IF m.prox[w].handler = "static"
                  THEN Call("RedStaticProxyHandler_deleteProperty", <<m, w, key, fuel - 1>>)
                  ELSE Call("RedDynamicProxyHandler_deleteProperty", <<m, w, key, fuel - 1>>)
             sh == r.m.prox[w].shadow
         IN IF Bad(r) THEN r
            ELSE IF r.val /\ sh.props[key].k # "none" /\ (~sh.props[key].c \/ ~sh.ext)
            THEN Throw(r.m, RedTypeError)
            ELSE r

RedStaticProxyHandler_ownKeys(m, w, fuel) ==
    LET i == Call("initialize", <<m, w, fuel>>)
    IN IF Bad(i) THEN i ELSE Ret(i.m, OwnKeysOf(i.m.prox[w].shadow))

RedDynamicProxyHandler_ownKeys(m, w, fuel) ==
    IF m.host[m.prox[w].target].mode # "ok" THEN Throw(m, HostFailure(m, m.prox[w].target))
    ELSE Ret(m, OwnKeysOf(m.host[m.prox[w].target]))

\* Proxy [[OwnPropertyKeys]]; val is the set of keys
ProxyOwnKeys(m, w, fuel) ==
    IF fuel = 0 THEN Throw(m, StackOverflow)
    ELSE IF m.prox[w].handler = "revoked" THEN Throw(m, RedTypeError)
    ELSE LET r == IF m.prox[w].handler = "static"
                  THEN Call("RedStaticProxyHandler_ownKeys", <<m, w, fuel - 1>>)
                  ELSE Call("RedDynamicProxyHandler_ownKeys", <<m, w, fuel - 1>>)
             sh == r.m.prox[w].shadow
         IN IF Bad(r) THEN r
            ELSE IF \E k \in OwnKeysOf(sh) : ~sh.props[k].c /\ k \notin r.val
            THEN Throw(r.m, RedTypeError)
            ELSE IF ~sh.ext /\ r.val # OwnKeysOf(sh) THEN Throw(r.m, RedTypeError)
            ELSE r

RedStaticProxyHandler_getPrototypeOf(m, w, fuel) ==
    LET i == Call("initialize", <<m, w, fuel>>)
    IN IF Bad(i) THEN i ELSE Ret(i.m, i.m.prox[w].shadow.proto)

RedDynamicProxyHandler_getPrototypeOf(m, w, fuel) ==
    IF m.host[m.prox[w].target].mode # "ok" THEN Throw(m, HostFailure(m, m.prox[w].target))
    ELSE Call("getRedValue", <<m, m.host[m.prox[w].target].proto, fuel>>)

\* Proxy [[GetPrototypeOf]]
ProxyGetPrototypeOf(m, w, fuel) ==
    IF fuel = 0 THEN Throw(m, StackOverflow)
    ELSE IF m.prox[w].handler = "revoked" THEN Throw(m, RedTypeError)
    ELSE LET r == IF m.prox[w].handler = "static"
                  THEN Call("RedStaticProxyHandler_getPrototypeOf", <<m, w, fuel - 1>>)
                  ELSE Call("RedDynamicProxyHandler_getPrototypeOf", <<m, w, fuel - 1>>)
             sh == r.m.prox[w].shadow
         IN IF Bad(r) THEN r
            ELSE IF ~sh.ext /\ r.val # sh.proto THEN Throw(r.m, RedTypeError)
            ELSE r

RedStaticProxyHandler_setPrototypeOf(m, w, prototype, fuel) ==
    LET i == Call("initialize", <<m, w, fuel>>)
    IN IF Bad(i) THEN i
       ELSE LET d == OrdSetPrototypeOf(i.m.prox[w].shadow, prototype)
            IN Ret([i.m EXCEPT !.prox[w].shadow = d.obj], d.ok)

RedDynamicProxyHandler_setPrototypeOf(m, w, prototype, fuel) ==
    LET target == m.prox[w].target IN
    IF m.host[target].mode # "ok" THEN Throw(m, HostFailure(m, target))
    ELSE LET d == HostOrdSetPrototypeOf(m, target, getBlueValue(m, prototype))
         IN Ret([m EXCEPT !.host[target] = d.obj], d.ok)

\* Proxy [[SetPrototypeOf]]
ProxySetPrototypeOf(m, w, prototype, fuel) ==
    IF fuel = 0 THEN Throw(m, StackOverflow)
    ELSE IF m.prox[w].handler = "revoked" THEN Throw(m, RedTypeError)
    ELSE LET r == IF m.prox[w].handler = "static"
                  THEN Call("RedStaticProxyHandler_setPrototypeOf", <<m, w, prototype, fuel - 1>>)
                  ELSE Call("RedDynamicProxyHandler_setPrototypeOf", <<m, w, prototype, fuel - 1>>)
             sh == r.m.prox[w].shadow
         IN IF Bad(r) THEN r
            ELSE IF r.val /\ ~sh.ext /\ prototype # sh.proto THEN Throw(r.m, RedTypeError)
            ELSE r

RedStaticProxyHandler_isExtensible(m, w, fuel) ==
    LET i == Call("initialize", <<m, w, fuel>>)
    IN IF Bad(i) THEN i ELSE Ret(i.m, i.m.prox[w].shadow.ext)

\* fault variant: a non-extensible target is reported without the lock-down walk
RedDynamicProxyHandler_isExtensible_NoLock(m, w, fuel) ==
    LET target == m.prox[w].target IN
    IF ~m.prox[w].shadow.ext THEN Ret(m, FALSE)
    ELSE IF m.host[target].mode # "ok" THEN Throw(m, HostFailure(m, target))
    ELSE IF ~m.host[target].ext THEN Ret(m, FALSE)
    ELSE Ret(m, TRUE)

RedDynamicProxyHandler_isExtensible(m, w, fuel) ==
    LET target == m.prox[w].target IN
    IF ~m.prox[w].shadow.ext THEN Ret(m, FALSE)
    ELSE IF m.host[target].mode # "ok" THEN Throw(m, HostFailure(m, target))
    ELSE IF ~m.host[target].ext
    THEN LET l == Call("lockShadowTarget", <<m, w, target, fuel>>)
         IN IF Bad(l) THEN l ELSE Ret(l.m, FALSE)
    ELSE Ret(m, TRUE)

\* Proxy [[IsExtensible]]
ProxyIsExtensible(m, w, fuel) ==
    IF fuel = 0 THEN Throw(m, StackOverflow)
    ELSE IF m.prox[w].handler = "revoked" THEN Throw(m, RedTypeError)
    ELSE LET r == IF m.prox[w].handler = "static"
                  THEN Call("RedStaticProxyHandler_isExtensible", <<m, w, fuel - 1>>)
                  ELSE Call("RedDynamicProxyHandler_isExtensible", <<m, w, fuel - 1>>)
         IN IF Bad(r) THEN r
            ELSE IF r.val # r.m.prox[w].shadow.ext THEN Throw(r.m, RedTypeError)
            ELSE r

RedStaticProxyHandler_preventExtensions(m, w, fuel) ==
    LET i == Call("initialize", <<m, w, fuel>>)
    IN IF Bad(i) THEN i ELSE Ret([i.m EXCEPT !.prox[w].shadow.ext = FALSE], TRUE)

\* Reflect.preventExtensions(target) on a host object: [ok, obj].  An ordinary object
\* becomes non-extensible.  The preventExtensions trap of a blue Proxy may return false
\* leaving its target as it is ("rejects") or after making it non-extensible
\* ("locksAndRejects"); beh names what the trap does.
HostReflectPreventExtensions(m, h) ==
    LET o == m.host[h] IN
    IF o.exotic /\ o.beh = "rejects" THEN [ok |-> FALSE, obj |-> o]
    ELSE IF o.exotic /\ o.beh = "locksAndRejects" THEN [ok |-> FALSE, obj |-> [o EXCEPT !.ext = FALSE]]
    ELSE [ok |-> TRUE, obj |-> [o EXCEPT !.ext = FALSE]]

\* fault variant: a rejected call never locks the shadow target
RedDynamicProxyHandler_preventExtensions_NoLockOnReject(m, w, fuel) ==
    LET target == m.prox[w].target IN
    IF m.prox[w].shadow.ext THEN
        IF m.host[target].mode # "ok" THEN Throw(m, HostFailure(m, target))
        ELSE LET p == HostReflectPreventExtensions(m, target)
                 m1 == [m EXCEPT !.host[target] = p.obj]
             IN IF ~p.ok THEN Ret(m1, FALSE)
                ELSE LET l == Call("lockShadowTarget", <<m1, w, target, fuel>>)
                     IN IF Bad(l) THEN l ELSE Ret(l.m, TRUE)
    ELSE Ret(m, TRUE)

\* fault variant: the host value is made non-extensible and the shadow target is not locked
RedDynamicProxyHandler_preventExtensions_Unlocked(m, w, fuel) ==
    LET target == m.prox[w].target IN
    IF m.prox[w].shadow.ext THEN
        IF m.host[target].mode # "ok" THEN Throw(m, HostFailure(m, target))
        ELSE LET p == HostReflectPreventExtensions(m, target)
             IN Ret([m EXCEPT !.host[target] = p.obj], p.ok)
    ELSE Ret(m, TRUE)

RedDynamicProxyHandler_preventExtensions(m, w, fuel) ==
    LET target == m.prox[w].target IN
    IF m.prox[w].shadow.ext THEN
        IF m.host[target].mode # "ok" THEN Throw(m, HostFailure(m, target))
        ELSE LET p == HostReflectPreventExtensions(m, target)
                 m1 == [m EXCEPT !.host[target] = p.obj]
             IN IF ~p.ok
                THEN IF ~m1.host[target].ext
                     THEN LET l == Call("lockShadowTarget", <<m1, w, target, fuel>>)
                          IN IF Bad(l) THEN l ELSE Ret(l.m, FALSE)
                     ELSE Ret(m1, FALSE)
                ELSE LET l == Call("lockShadowTarget", <<m1, w, target, fuel>>)
                     IN IF Bad(l) THEN l ELSE Ret(l.m, TRUE)
    ELSE Ret(m, TRUE)

\* Proxy [[PreventExtensions]]
ProxyPreventExtensions(m, w, fuel) ==
    IF fuel = 0 THEN Throw(m, StackOverflow)
    ELSE IF m.prox[w].handler = "revoked" THEN Throw(m, RedTypeError)
    ELSE LET r == IF m.prox[w].handler = "static"
                  THEN Call("RedStaticProxyHandler_preventExtensions", <<m, w, fuel - 1>>)
                  ELSE Call("RedDynamicProxyHandler_preventExtensions", <<m, w, fuel - 1>>)
         IN IF Bad(r) THEN r
            ELSE IF r.val /\ r.m.prox[w].shadow.ext THEN Throw(r.m, RedTypeError)
            ELSE r

(***************************************************************************)
(* The dispatcher.                                                         *)
(***************************************************************************)
Call(f, a) ==
    CASE f = "getRevokedRedProxy" -> getRevokedRedProxy(a[1], a[2])
      [] f = "createRedProxy" -> createRedProxy(a[1], a[2])
      [] f = "getRedFunction" -> getRedFunction(a[1], a[2])
      [] f = "getRedArrayElems" -> getRedArrayElems(a[1], a[2], a[3], a[4], a[5])
      [] f = "getRedArray" -> getRedArray(a[1], a[2], a[3])
      [] f = "getRedValue" -> getRedValue(a[1], a[2], a[3])
      [] f = "getRedDescriptor" -> getRedDescriptor(a[1], a[2], a[3])
      [] f = "copyRedOwnDescriptorsFrom" -> copyRedOwnDescriptorsFrom(a[1], a[2], a[3], a[4], a[5])
      [] f = "copyRedOwnDescriptors" -> copyRedOwnDescriptors(a[1], a[2], a[3], a[4])
      [] f = "copyBlueDescriptorIntoShadowTarget" -> copyBlueDescriptorIntoShadowTarget(a[1], a[2], a[3], a[4], a[5])
      [] f = "lockShadowTargetFrom" -> lockShadowTargetFrom(a[1], a[2], a[3], a[4], a[5])
      [] f = "lockShadowTarget" -> lockShadowTarget(a[1], a[2], a[3], a[4])
      [] f = "initialize" -> initialize(a[1], a[2], a[3])
      [] f = "HostInvoke" -> HostInvoke(a[1], a[2], a[3], a[4])
      [] f = "HostGet" -> HostGet(a[1], a[2], a[3], a[4])
      [] f = "HostHas" -> HostHas(a[1], a[2], a[3])
      [] f = "HostSet" -> HostSet(a[1], a[2], a[3], a[4], a[5])
      [] f = "redProxyApplyTrap" -> redProxyApplyTrap(a[1], a[2], a[3], a[4], a[5])
      [] f = "redProxyConstructTrap" -> redProxyConstructTrap(a[1], a[2], a[3], a[4], a[5])
      [] f = "ShadowGet" -> ShadowGet(a[1], a[2], a[3], a[4], a[5])
      [] f = "ShadowHas" -> ShadowHas(a[1], a[2], a[3], a[4])
      [] f = "ShadowSet" -> ShadowSet(a[1], a[2], a[3], a[4], a[5], a[6])
      [] f = "RedStaticProxyHandler_apply" -> RedStaticProxyHandler_apply(a[1], a[2], a[3], a[4], a[5])
      [] f = "RedDynamicProxyHandler_apply" -> RedDynamicProxyHandler_apply(a[1], a[2], a[3], a[4], a[5])
      [] f = "ProxyCall" -> ProxyCall(a[1], a[2], a[3], a[4], a[5])
      [] f = "RedStaticProxyHandler_construct" -> RedStaticProxyHandler_construct(a[1], a[2], a[3], a[4], a[5])
      [] f = "RedDynamicProxyHandler_construct" -> RedDynamicProxyHandler_construct(a[1], a[2], a[3], a[4], a[5])
      [] f = "ProxyConstruct" -> ProxyConstruct(a[1], a[2], a[3], a[4], a[5])
      [] f = "RedStaticProxyHandler_get" -> RedStaticProxyHandler_get(a[1], a[2], a[3], a[4], a[5])
      [] f = "RedDynamicProxyHandler_get" -> RedDynamicProxyHandler_get(a[1], a[2], a[3], a[4], a[5])
      [] f = "ProxyGet" -> ProxyGet(a[1], a[2], a[3], a[4], a[5])
      [] f = "RedStaticProxyHandler_has" -> RedStaticProxyHandler_has(a[1], a[2], a[3], a[4])
      [] f = "RedDynamicProxyHandler_has" -> RedDynamicProxyHandler_has(a[1], a[2], a[3], a[4])
      [] f = "ProxyHas" -> ProxyHas(a[1], a[2], a[3], a[4])
      [] f = "RedStaticProxyHandler_getOwnPropertyDescriptor" -> RedStaticProxyHandler_getOwnPropertyDescriptor(a[1], a[2], a[3], a[4])
      [] f = "RedDynamicProxyHandler_getOwnPropertyDescriptor" -> RedDynamicProxyHandler_getOwnPropertyDescriptor(a[1], a[2], a[3], a[4])
      [] f = "ProxyGetOwnProperty" -> ProxyGetOwnProperty(a[1], a[2], a[3], a[4])
      [] f = "RedStaticProxyHandler_defineProperty" -> RedStaticProxyHandler_defineProperty(a[1], a[2], a[3], a[4], a[5])
      [] f = "RedDynamicProxyHandler_defineProperty" -> RedDynamicProxyHandler_defineProperty(a[1], a[2], a[3], a[4], a[5])
      [] f = "ProxyDefineOwnProperty" -> ProxyDefineOwnProperty(a[1], a[2], a[3], a[4], a[5])
      [] f = "RedStaticProxyHandler_set" -> RedStaticProxyHandler_set(a[1], a[2], a[3], a[4], a[5], a[6])
      [] f = "RedDynamicProxyHandler_set" -> RedDynamicProxyHandler_set(a[1], a[2], a[3], a[4], a[5], a[6])
      [] f = "ProxySet" -> ProxySet(a[1], a[2], a[3], a[4], a[5], a[6])
      [] f = "RedStaticProxyHandler_deleteProperty" -> RedStaticProxyHandler_deleteProperty(a[1], a[2], a[3], a[4])
      [] f = "RedDynamicProxyHandler_deleteProperty" -> RedDynamicProxyHandler_deleteProperty(a[1], a[2], a[3], a[4])
      [] f = "ProxyDelete" -> ProxyDelete(a[1], a[2], a[3], a[4])
      [] f = "RedStaticProxyHandler_ownKeys" -> RedStaticProxyHandler_ownKeys(a[1], a[2], a[3])
      [] f = "RedDynamicProxyHandler_ownKeys" -> RedDynamicProxyHandler_ownKeys(a[1], a[2], a[3])
      [] f = "ProxyOwnKeys" -> ProxyOwnKeys(a[1], a[2], a[3])
      [] f = "RedStaticProxyHandler_getPrototypeOf" -> RedStaticProxyHandler_getPrototypeOf(a[1], a[2], a[3])
      [] f = "RedDynamicProxyHandler_getPrototypeOf" -> RedDynamicProxyHandler_getPrototypeOf(a[1], a[2], a[3])
      [] f = "ProxyGetPrototypeOf" -> ProxyGetPrototypeOf(a[1], a[2], a[3])
      [] f = "RedStaticProxyHandler_setPrototypeOf" -> RedStaticProxyHandler_setPrototypeOf(a[1], a[2], a[3], a[4])
      [] f = "RedDynamicProxyHandler_setPrototypeOf" -> RedDynamicProxyHandler_setPrototypeOf(a[1], a[2], a[3], a[4])
      [] f = "ProxySetPrototypeOf" -> ProxySetPrototypeOf(a[1], a[2], a[3], a[4])
      [] f = "RedStaticProxyHandler_isExtensible" -> RedStaticProxyHandler_isExtensible(a[1], a[2], a[3])
      [] f = "RedDynamicProxyHandler_isExtensible" -> RedDynamicProxyHandler_isExtensible(a[1], a[2], a[3])
      [] f = "ProxyIsExtensible" -> ProxyIsExtensible(a[1], a[2], a[3])
      [] f = "RedStaticProxyHandler_preventExtensions" -> RedStaticProxyHandler_preventExtensions(a[1], a[2], a[3])
      [] f = "RedDynamicProxyHandler_preventExtensions" -> RedDynamicProxyHandler_preventExtensions(a[1], a[2], a[3])
      [] f = "ProxyPreventExtensions" -> ProxyPreventExtensions(a[1], a[2], a[3])

(***************************************************************************)
(* The global descriptors of the sandbox (near-membrane-dom, window.ts).   *)
(* A descriptor map is a function from the global names to descriptors; a  *)
(* descriptor is known by where it comes from.                             *)
(***************************************************************************)
UnforgeableNames == {"location", "document", "window", "top", "crypto", "chrome"}
IntrinsicNames == {"Object"}
GlobalNames == UnforgeableNames \cup IntrinsicNames \cup {"alert", "expando"}

Absent == <<"absent", "">>
UndefinedEntry == <<"undefined", "">>
BlueDescriptor(key) == <<"blue", key>>
EndowmentDescriptor(key) == <<"endowment", key>>

\* the names of the ECMAScript intrinsics, which the sandbox keeps its own copies of
isIntrinsicGlobalName(key) == key \in IntrinsicNames

\* fault variant: the unforgeable names are removed before the endowments are merged
aggregateWindowDescriptors_RemovedFirst(redOwnKeys, blueDescriptors, endowmentsDescriptors) ==
    LET base == [key \in GlobalNames |->
                    IF key \in redOwnKeys /\ ~isIntrinsicGlobalName(key) /\ key \notin UnforgeableNames
                    THEN (IF blueDescriptors[key] = Absent THEN UndefinedEntry ELSE blueDescriptors[key])
                    ELSE Absent]
    IN [key \in GlobalNames |->
            IF endowmentsDescriptors[key] # Absent THEN endowmentsDescriptors[key] ELSE base[key]]

\* redOwnKeys is the set of the keys in the array; an absent endowments argument is the
\* map without keys
aggregateWindowDescriptors(redOwnKeys, blueDescriptors, endowmentsDescriptors) ==
    LET base == [key \in GlobalNames |->
                    IF key \in redOwnKeys /\ ~isIntrinsicGlobalName(key)
                    THEN (IF blueDescriptors[key] = Absent THEN UndefinedEntry ELSE blueDescriptors[key])
                    ELSE Absent]
        assigned == [key \in GlobalNames |->
                        IF endowmentsDescriptors[key] # Absent THEN endowmentsDescriptors[key]
                        ELSE base[key]]
    IN [key \in GlobalNames |-> IF key \in UnforgeableNames THEN Absent ELSE assigned[key]]

NoDescriptors == [key \in GlobalNames |-> Absent]
NoWindow ==
    [redOwnKeys |-> {}, blueDescriptors |-> NoDescriptors, endowmentsDescriptors |-> NoDescriptors,
     to |-> NoDescriptors, aggregated |-> FALSE]

(***************************************************************************)
(* The state machine.  The guest holds the proxies minted so far and       *)
(* performs the fundamental operations on them; the host mutates its own   *)
(* objects directly.  Every action is one complete, synchronous crossing.  *)
(***************************************************************************)
HostIds == {1, 2, 3, 4}
ProxIds == 1..MaxProxies

PlainObject(props, proto) ==
    [kind |-> "object", props |-> props, proto |-> proto, ext |-> TRUE, mode |-> "ok",
     elems |-> <<>>, beh |-> "none", hasPrototype |-> FALSE, exotic |-> FALSE]
\* a blue Proxy around an object: its traps throw ("throws"), forward ("ok"), or it is revoked
HostProxy(props, mode) ==
    [kind |-> "object", props |-> props, proto |-> BlueObjectProto, ext |-> TRUE, mode |-> mode,
     elems |-> <<>>, beh |-> "none", hasPrototype |-> FALSE, exotic |-> TRUE]
HostFunction(beh, hasPrototype) ==
    [kind |-> "function", props |-> NoProps, proto |-> BlueObjectProto, ext |-> TRUE,
     mode |-> "ok", elems |-> <<>>, beh |-> beh, hasPrototype |-> hasPrototype,
     exotic |-> FALSE]
HostArray(elems) ==
    [kind |-> "array", props |-> NoProps, proto |-> BlueObjectProto, ext |-> TRUE,
     mode |-> "ok", elems |-> elems, beh |-> "none", hasPrototype |-> FALSE,
     exotic |-> FALSE]

Data(v) == DataDesc(v, TRUE, TRUE, TRUE)
Marker == DataDesc(Prim(1), FALSE, FALSE, FALSE)
NoDistortion == [h \in HostIds |-> 0]

NoLast ==
    [op |-> "none", w |-> 0, h |-> 0, key |-> "none", arg |-> Undef, val |-> Undef,
     exc |-> NoExc, calls |-> <<>>, oracle |-> NoOracle, obs |-> <<>>]

InitWith(heaps, distortions) ==
    /\ host \in heaps
    /\ distortionMap \in distortions
    /\ prox = <<>>
    /\ blueMap = [h \in HostIds |-> 0]
    /\ redMap = [w \in ProxIds |-> 0]
    /\ garr = <<>>
    /\ handed = [h \in HostIds |-> {}]
    /\ hostOps = 0
    /\ guestOps = 0
    /\ last = NoLast
    /\ win = NoWindow

\* the machine state after a crossing becomes the state
Commit(r) ==
    /\ ~r.m.ovf
    /\ host' = r.m.host
    /\ prox' = r.m.prox
    /\ blueMap' = r.m.bmap
    /\ redMap' = r.m.rmap
    /\ garr' = r.m.garr
    /\ UNCHANGED <<distortionMap, win>>

Here == Cur(NoOracle, FALSE)

GuestStep(r, op, w, h, key, arg, oracle) ==
    /\ guestOps < MaxGuestOps
    /\ Commit(r)
    /\ guestOps' = guestOps + 1
    /\ last' = [op |-> op, w |-> w, h |-> h, key |-> key, arg |-> arg, val |-> r.val,
                exc |-> r.exc, calls |-> r.m.calls,
                oracle |-> IF r.m.calls = <<>> THEN NoOracle ELSE oracle,
                obs |-> r.m.obs]
    /\ UNCHANGED hostOps

\* the values a host function may return and the values it may throw
OracleReturns == {Undef, Prim(1), H(1)}
Messages == {Prim(7)}
OracleThrows ==
    {BlueError(c, msg) : c \in {"Error", "RangeError", "Custom"}, msg \in Messages}
    \cup {BlueError("Number", Undef), BlueError("null", Undef), BlueError("poison", Prim(7))}
Oracles ==
    {[kind |-> "ret", val |-> v, exc |-> NoExc] : v \in OracleReturns}
    \cup {[kind |-> "throw", val |-> Undef, exc |-> e] : e \in OracleThrows}

\* toGuestValue(h): the guest receives a host value
ToGuest(h) ==
    LET r == Call("getRedValue", <<Here, H(h), MaxDepth>>)
    IN /\ GuestStep(r, "toGuest", 0, h, "none", Undef, NoOracle)
       /\ handed' = [handed EXCEPT ![h] = IF Threw(r) THEN @ ELSE @ \cup {r.val}]

\* toGuestValue(v) for a value v that is no object: null, undefined or a primitive
ToGuestPrimitive(v) ==
    /\ GuestStep(Call("getRedValue", <<Here, v, MaxDepth>>), "toGuest", 0, 0, "none", v, NoOracle)
    /\ UNCHANGED handed

\* toGuestValue(h) while every blueEnv.setRefMapEntries call fails
ToGuestRegistrationFails(h) ==
    LET r == Call("getRedValue", <<Cur(NoOracle, TRUE), H(h), MaxDepth>>)
    IN /\ GuestStep(r, "toGuestRegistrationFails", 0, h, "none", Undef, NoOracle)
       /\ handed' = [handed EXCEPT ![h] = IF Threw(r) THEN @ ELSE @ \cup {r.val}]

\* toGuestValue(h) during which the blue Proxy cb.h calls back into the guest
ToGuestReentrant(h, cb) ==
    LET r == Call("getRedValue", <<[Here EXCEPT !.cb = cb], H(h), MaxDepth>>)
    IN /\ GuestStep(r, "toGuest", 0, h, "none", Undef, NoOracle)
       /\ handed' = [handed EXCEPT ![h] = IF Threw(r) THEN @ ELSE @ \cup {r.val}]

\* the guest evaluates (key in w) and the blue Proxy cb.h calls back into the guest when
\* the operation makes the membrane introspect it
GuestHasReentrant(w, key, cb) ==
    /\ GuestStep(Call("ProxyHas", <<[Here EXCEPT !.cb = cb], w, key, MaxDepth>>),
                 "has", w, 0, key, Undef, NoOracle)
    /\ UNCHANGED handed

\* the guest reads w[key]; a host function the read runs completes as the oracle says
GuestGet(w, key, oracle) ==
    /\ GuestStep(Call("ProxyGet", <<Cur(oracle, FALSE), w, key, W(w), MaxDepth>>),
                 "get", w, 0, key, Undef, oracle)
    /\ UNCHANGED handed

GuestSet(w, key, v) ==
    /\ GuestStep(Call("ProxySet", <<Here, w, key, v, w, MaxDepth>>), "set", w, 0, key, v, NoOracle)
    /\ UNCHANGED handed

GuestHas(w, key) ==
    /\ GuestStep(Call("ProxyHas", <<Here, w, key, MaxDepth>>), "has", w, 0, key, Undef, NoOracle)
    /\ UNCHANGED handed

GuestDelete(w, key) ==
    /\ GuestStep(Call("ProxyDelete", <<Here, w, key, MaxDepth>>), "deleteProperty", w, 0, key, Undef, NoOracle)
    /\ UNCHANGED handed

GuestOwnKeys(w) ==
    /\ GuestStep(Call("ProxyOwnKeys", <<Here, w, MaxDepth>>), "ownKeys", w, 0, "none", Undef, NoOracle)
    /\ UNCHANGED handed

GuestGetOwnPropertyDescriptor(w, key) ==
    /\ GuestStep(Call("ProxyGetOwnProperty", <<Here, w, key, MaxDepth>>),
                 "getOwnPropertyDescriptor", w, 0, key, Undef, NoOracle)
    /\ UNCHANGED handed

GuestDefineProperty(w, key, pd) ==
    /\ GuestStep(Call("ProxyDefineOwnProperty", <<Here, w, key, pd, MaxDepth>>),
                 "defineProperty", w, 0, key, pd.v, NoOracle)
    /\ UNCHANGED handed

GuestGetPrototypeOf(w) ==
    /\ GuestStep(Call("ProxyGetPrototypeOf", <<Here, w, MaxDepth>>), "getPrototypeOf", w, 0, "none", Undef, NoOracle)
    /\ UNCHANGED handed

GuestSetPrototypeOf(w, p) ==
    /\ GuestStep(Call("ProxySetPrototypeOf", <<Here, w, p, MaxDepth>>), "setPrototypeOf", w, 0, "none", p, NoOracle)
    /\ UNCHANGED handed

GuestIsExtensible(w) ==
    /\ GuestStep(Call("ProxyIsExtensible", <<Here, w, MaxDepth>>), "isExtensible", w, 0, "none", Undef, NoOracle)
    /\ UNCHANGED handed

GuestPreventExtensions(w) ==
    /\ GuestStep(Call("ProxyPreventExtensions", <<Here, w, MaxDepth>>), "preventExtensions", w, 0, "none", Undef, NoOracle)
    /\ UNCHANGED handed

GuestApply(w, oracle) ==
    /\ GuestStep(Call("ProxyCall", <<Cur(oracle, FALSE), w, Undef, <<Prim(1)>>, MaxDepth>>),
                 "apply", w, 0, "none", Undef, oracle)
    /\ UNCHANGED handed

\* the guest calls w with the proxy t as this: Reflect.apply(w, t, [1])
GuestApplyOn(w, t, oracle) ==
    /\ GuestStep(Call("ProxyCall", <<Cur(oracle, FALSE), w, W(t), <<Prim(1)>>, MaxDepth>>),
                 "apply", w, 0, "none", W(t), oracle)
    /\ UNCHANGED handed

GuestConstruct(w, oracle) ==
    /\ GuestStep(Call("ProxyConstruct", <<Cur(oracle, FALSE), w, <<Prim(1)>>, W(w), MaxDepth>>),
                 "construct", w, 0, "none", Undef, oracle)
    /\ UNCHANGED handed

\* the construct trap of the handler of w is called with the argument list [w] and
\* without a newTarget: handler.construct(shadowTarget, [w], undefined)
ConstructTrapWithoutNewTarget(w, oracle) ==
    /\ prox[w].handler # "revoked"
    /\ host[prox[w].target].kind = "function"
    /\ GuestStep(IF prox[w].handler = "static"
                 THEN Call("RedStaticProxyHandler_construct",
                           <<Cur(oracle, FALSE), w, <<W(w)>>, Undef, MaxDepth>>)
                 ELSE Call("RedDynamicProxyHandler_construct",
                           <<Cur(oracle, FALSE), w, <<W(w)>>, Undef, MaxDepth>>),
                 "constructTrap", w, 0, "none", Undef, oracle)
    /\ UNCHANGED handed

\* a host-side step: the host heap changes, the membrane is not involved
HostStep(newHost, op, h, key, arg, ok) ==
    /\ hostOps < MaxHostOps
    /\ host' = newHost
    /\ hostOps' = hostOps + 1
    /\ last' = [NoLast EXCEPT !.op = op, !.h = h, !.key = key, !.arg = arg, !.val = ok]
    /\ UNCHANGED <<prox, blueMap, redMap, distortionMap, garr, handed, guestOps, win>>

\* host code runs h[key] = v
HostWrite(h, key, v) ==
    /\ host[h].mode = "ok"
    /\ LET r == Call("HostSet", <<Here, h, key, v, H(h)>>)
       IN HostStep(r.m.host, "hostWrite", h, key, v, r.val)

\* host code runs Reflect.defineProperty(h, key, pd)
HostDefineProperty(h, key, pd) ==
    /\ host[h].mode = "ok"
    /\ LET d == OrdDefine(host[h], key, pd)
       IN HostStep([host EXCEPT ![h] = d.obj], "hostDefineProperty", h, key, pd.v, d.ok)

\* host code runs delete h[key]
HostDeleteProperty(h, key) ==
    /\ host[h].mode = "ok"
    /\ LET d == OrdDelete(host[h], key)
       IN HostStep([host EXCEPT ![h] = d.obj], "hostDelete", h, key, Undef, d.ok)

\* host code runs Reflect.setPrototypeOf(h, p)
HostSetPrototypeOf(h, p) ==
    /\ host[h].mode = "ok"
    /\ LET d == HostOrdSetPrototypeOf(Here, h, p)
       IN HostStep([host EXCEPT ![h] = d.obj], "hostSetPrototypeOf", h, "none", p, d.ok)

\* host code runs Object.preventExtensions(h)
HostPreventExtensions(h) ==
    /\ host[h].mode = "ok"
    /\ HostStep([host EXCEPT ![h].ext = FALSE], "hostPreventExtensions", h, "none", Undef, TRUE)

\* host code runs Object.freeze(h)
HostFreeze(h) ==
    /\ host[h].mode = "ok"
    /\ HostStep([host EXCEPT ![h] = FreezeObj(@)], "hostFreeze", h, "none", Undef, TRUE)

\* the handler of a blue Proxy starts or stops throwing, or the Proxy is revoked
HostSetMode(h, mode) ==
    /\ host[h].exotic
    /\ host[h].mode # "revoked"
    /\ host[h].mode # mode
    /\ HostStep([host EXCEPT ![h].mode = mode], "hostSetMode", h, "none", Undef, TRUE)

(***************************************************************************)
(* Inputs of the operations.                                               *)
(***************************************************************************)
GuestValues == {Prim(2)}
GuestParents == {Null} \cup {W(i) : i \in 1..Len(prox)}
GuestDescriptors ==
    {PartialOf(Data(Prim(2))), PartialOf(DataDesc(Prim(2), FALSE, TRUE, FALSE)), PartialValue(Prim(2))}
HostValues == {Prim(2)}
HostParents == {Null} \cup {H(h) : h \in HostIds}
HostDescriptors ==
    {[PartialValue(Undef) EXCEPT !.has = {"c"}, !.c = FALSE],
     [PartialValue(Undef) EXCEPT !.has = {"c", "w"}, !.c = FALSE, !.w = FALSE],
     [PartialValue(Undef) EXCEPT !.has = {"c"}, !.c = TRUE],
     PartialOf(Data(Prim(2)))}
DataKeys == Keys \ {LockerLiveValueMarkerSymbol, SymbolIterator}

(***************************************************************************)
(* Specifications: the same operations over different initial heaps.       *)
(***************************************************************************)
Props(x, y, marker) ==
    [k \in Keys |-> IF k = "x" THEN x ELSE IF k = "y" THEN y
                    ELSE IF k = LockerLiveValueMarkerSymbol THEN marker ELSE NoDesc]

\* a plain object with a data attribute x and attribute y; when y is an accessor its getter
\* and setter are the host functions 3 and 4
StaticHeap(y) ==
    [h \in HostIds |->
        IF h = 1 THEN PlainObject(Props(Data(Prim(1)), y, NoDesc), BlueObjectProto)
        ELSE IF h = 2 THEN PlainObject(NoProps, BlueObjectProto)
        ELSE IF h = 3 THEN HostFunction("getX", FALSE)
        ELSE HostFunction("setX", FALSE)]

InitStatic ==
    InitWith({StaticHeap(y) : y \in {NoDesc, AccDesc(H(3), H(4), TRUE, TRUE)}}, {NoDistortion})

\* the proxies whose handler target is host object h
ProxiesOf(h) == {w \in 1..Len(prox) : prox[w].target = h}

StaticGuestRead(w) ==
    \/ \E key \in DataKeys : GuestGet(w, key, NoOracle)
    \/ \E key \in DataKeys : GuestHas(w, key)
    \/ GuestOwnKeys(w)
    \/ \E key \in DataKeys : GuestGetOwnPropertyDescriptor(w, key)
    \/ GuestGetPrototypeOf(w)
    \/ GuestIsExtensible(w)

StaticGuestWrite(w) ==
    \/ \E key \in DataKeys, v \in GuestValues : GuestSet(w, key, v)
    \/ \E key \in DataKeys : GuestDelete(w, key)
    \/ \E key \in DataKeys, pd \in GuestDescriptors : GuestDefineProperty(w, key, pd)
    \/ \E p \in GuestParents : GuestSetPrototypeOf(w, p)
    \/ GuestPreventExtensions(w)

HostMutation(h) ==
    \/ \E key \in DataKeys, v \in HostValues : HostWrite(h, key, v)
    \/ \E key \in DataKeys, pd \in HostDescriptors : HostDefineProperty(h, key, pd)
    \/ \E key \in DataKeys : HostDeleteProperty(h, key)
    \/ \E p \in {Null} : HostSetPrototypeOf(h, p)
    \/ HostPreventExtensions(h)
    \/ HostFreeze(h)

NextStatic ==
    \/ ToGuest(1)
    \/ \E w \in ProxiesOf(1) : StaticGuestRead(w)
    \/ \E w \in ProxiesOf(1) : StaticGuestWrite(w)
    \/ HostMutation(1)

SpecStatic == InitStatic /\ [][NextStatic]_vars

\* the result of an operation as the guest sees it: the value returned or the error thrown
Seen(r) == IF Threw(r) THEN <<"threw", r.exc>> ELSE <<"returned", r.val>>

\* what the guest learns from a read of key: the result, unless the read ran a host function
SeenRead(r) == IF r.m.calls = <<>> THEN Seen(r) ELSE <<"ran", r.m.calls>>

\* the machine state after the step
HereNext ==
    [host |-> host', prox |-> prox', bmap |-> blueMap', rmap |-> redMap', garr |-> garr',
     oracle |-> NoOracle, regFail |-> FALSE, calls |-> <<>>, ovf |-> FALSE,
     cb |-> NoCallback, obs |-> <<>>]

\* the results of has / ownKeys / getOwnPropertyDescriptor / getPrototypeOf / isExtensible
\* on proxy w, performed in machine state m
Structure(m, w) ==
    <<[key \in Keys |-> Seen(Call("ProxyHas", <<m, w, key, MaxDepth>>))],
      [key \in Keys |-> Seen(Call("ProxyGetOwnProperty", <<m, w, key, MaxDepth>>))],
      Seen(Call("ProxyOwnKeys", <<m, w, MaxDepth>>)),
      Seen(Call("ProxyGetPrototypeOf", <<m, w, MaxDepth>>)),
      Seen(Call("ProxyIsExtensible", <<m, w, MaxDepth>>))>>

\* the results of get on proxy w for every key, performed in machine state m
Reads(m, w) == [key \in Keys |-> Seen(Call("ProxyGet", <<m, w, key, W(w), MaxDepth>>))]

\* the same, with the reads that run a host function (a captured accessor) left out
DataReads(m, w) ==
    [key \in Keys |-> SeenRead(Call("ProxyGet", <<m, w, key, W(w), MaxDepth>>))]

InitializedStatic(w) == w \in 1..Len(prox) /\ prox[w].handler = "static" /\ prox[w].init

HostMutated == hostOps' # hostOps

\* C2 (as stated): a host-side mutation changes the result of no get / has / ownKeys /
\* getOwnPropertyDescriptor / getPrototypeOf / isExtensible on an initialized static wrapper.
C2_StaticIsolated ==
    [][HostMutated =>
        \A w \in 1..Len(prox) : InitializedStatic(w) =>
            /\ Structure(HereNext, w) = Structure(Here, w)
            /\ Reads(HereNext, w) = Reads(Here, w)]_vars

\* C2 (amended): a host-side mutation changes the result of no has / ownKeys /
\* getOwnPropertyDescriptor / getPrototypeOf / isExtensible on an initialized static wrapper,
\* and of no get that resolves to a data attribute; a get that resolves to a captured
\* accessor calls the host getter, which runs against the host value as it is now.
C2_StaticDataIsolated ==
    [][HostMutated =>
        \A w \in 1..Len(prox) : InitializedStatic(w) =>
            /\ Structure(HereNext, w) = Structure(Here, w)
            /\ DataReads(HereNext, w) = DataReads(Here, w)]_vars

\* C2 witness: the host changed x to 2 and a read of x on the static wrapper of the object
\* still returned 1
C2_Witness ==
    /\ last.op = "get" /\ last.key = "x" /\ last.val = Prim(1) /\ ~Threw(last)
    /\ InitializedStatic(last.w)
    /\ host[prox[last.w].target].props["x"].v = Prim(2)

StaticOps ==
    {"get", "set", "has", "deleteProperty", "ownKeys", "getOwnPropertyDescriptor",
     "defineProperty", "getPrototypeOf", "setPrototypeOf", "isExtensible", "preventExtensions"}

\* the step is a guest operation on a static wrapper that was already initialized
GuestOnStatic ==
    /\ guestOps' # guestOps
    /\ last'.op \in StaticOps
    /\ InitializedStatic(last'.w)

\* the last step was a successful guest write of last.arg to last.key on a static wrapper
GuestWrote == last.op = "set" /\ ~Threw(last) /\ last.val = TRUE /\ InitializedStatic(last.w)

WrittenIsReadable ==
    Seen(Call("ProxyGet", <<Here, last.w, last.key, W(last.w), MaxDepth>>)) = <<"returned", last.arg>>

DynamicHeap(x) ==
    [h \in HostIds |->
        IF h = 1 THEN PlainObject(Props(Data(x), NoDesc, Marker), BlueObjectProto)
        ELSE IF h = 2 THEN HostArray(<<Prim(1)>>)
        ELSE IF h = 3 THEN PlainObject(NoProps, BlueObjectProto)
        ELSE HostFunction("oracle", FALSE)]

InitDynamic == InitWith({DynamicHeap(x) : x \in {Prim(1), H(2), H(3), H(4)}}, {NoDistortion})

DynamicGuestRead(w) ==
    \/ \E key \in DataKeys : GuestGet(w, key, NoOracle)
    \/ \E key \in DataKeys : GuestHas(w, key)
    \/ GuestOwnKeys(w)
    \/ \E key \in DataKeys : GuestGetOwnPropertyDescriptor(w, key)
    \/ GuestGetPrototypeOf(w)
    \/ GuestIsExtensible(w)

DynamicGuestWrite(w) ==
    \/ \E key \in DataKeys, v \in GuestValues : GuestSet(w, key, v)
    \/ \E key \in DataKeys : GuestDelete(w, key)
    \/ \E key \in DataKeys, pd \in GuestDescriptors : GuestDefineProperty(w, key, pd)
    \/ GuestSetPrototypeOf(w, Null)
    \/ GuestPreventExtensions(w)

NextDynamic ==
    \/ ToGuest(1)
    \/ \E w \in ProxiesOf(1) : DynamicGuestRead(w)
    \/ \E w \in ProxiesOf(1) : DynamicGuestWrite(w)
    \/ HostMutation(1)

SpecDynamic == InitDynamic /\ [][NextDynamic]_vars

Dynamic(w) == w \in 1..Len(prox) /\ prox[w].handler = "dynamic"

\* the guest conversion of the result of a host-side operation
Converted(r) == IF Bad(r) THEN r ELSE Call("getRedValue", <<r.m, r.val, MaxDepth>>)

\* C4 (as stated): in every state, get / has / ownKeys / getPrototypeOf on a dynamic wrapper
\* return the guest conversion of what the host value holds now.
C4_DynamicLive ==
    \A w \in 1..Len(prox) : Dynamic(w) =>
        LET t == prox[w].target IN
        /\ \A key \in Keys :
            /\ Seen(Call("ProxyGet", <<Here, w, key, W(w), MaxDepth>>))
                    = Seen(Converted(Call("HostGet", <<Here, t, key, H(t)>>)))
            /\ Seen(Call("ProxyHas", <<Here, w, key, MaxDepth>>))
                    = Seen(Call("HostHas", <<Here, t, key>>))
        /\ Seen(Call("ProxyOwnKeys", <<Here, w, MaxDepth>>)) = <<"returned", OwnKeysOf(host[t])>>
        /\ Seen(Call("ProxyGetPrototypeOf", <<Here, w, MaxDepth>>))
                = Seen(Converted(Ret(Here, host[t].proto)))

\* the machine state after the host tried to redefine key of host object t with pd
AfterHostDefine(m, t, key, pd) == [m EXCEPT !.host[t] = OrdDefine(m.host[t], key, pd).obj]

\* a reconfiguration of key that the host object t rejects
FailedReconfigurations(m, t, key) ==
    {pd \in HostDescriptors : ~OrdDefine(m.host[t], key, pd).ok}

\* a descriptor query completed and reported a non-configurable attribute
ReportsNonConfigurable(q) == ~Threw(q) /\ q.val.k # "none" /\ ~q.val.c

\* C8 (as stated): for every attribute of a dynamic-wrapped host value that is
\* non-configurable on the host, two successive getOwnPropertyDescriptor queries on the
\* wrapper both complete and report configurable = false, with or without a failed
\* reconfiguration attempt of the host in between.
C8_NonConfigurableConsistent ==
    \A w \in 1..Len(prox) : Dynamic(w) =>
        \A key \in DataKeys :
            LET t == prox[w].target
                q1 == Call("ProxyGetOwnProperty", <<Here, w, key, MaxDepth>>)
            IN (host[t].props[key].k # "none" /\ ~host[t].props[key].c /\ ~q1.m.ovf) =>
                /\ ReportsNonConfigurable(q1)
                /\ LET q2 == Call("ProxyGetOwnProperty", <<q1.m, w, key, MaxDepth>>)
                   IN q2.m.ovf \/ ReportsNonConfigurable(q2)
                /\ \A pd \in FailedReconfigurations(q1.m, t, key) :
                    LET q2 == Call("ProxyGetOwnProperty",
                                   <<AfterHostDefine(q1.m, t, key, pd), w, key, MaxDepth>>)
                    IN q2.m.ovf \/ ReportsNonConfigurable(q2)

\* the keys proxy w enumerates in machine state m
EnumeratedKeys(m, w) == Seen(Call("ProxyOwnKeys", <<m, w, MaxDepth>>))

\* C9 (as stated): while the host value of a dynamic wrapper is not extensible the
\* wrapper's isExtensible query returns false; the keys the wrapper enumerates when the host
\* value stops being extensible are the host value's own keys, and they never change after.
C9_LockDownPropagates ==
    /\ [](\A w \in 1..Len(prox) : (Dynamic(w) /\ ~host[prox[w].target].ext) =>
            Seen(Call("ProxyIsExtensible", <<Here, w, MaxDepth>>)) = <<"returned", FALSE>>)
    /\ [][\A w \in 1..Len(prox) :
            (Dynamic(w) /\ host[prox[w].target].ext /\ ~host'[prox[w].target].ext) =>
                EnumeratedKeys(HereNext, w) = <<"returned", OwnKeysOf(host'[prox[w].target])>>]_vars
    /\ [][\A w \in 1..Len(prox) :
            (Dynamic(w) /\ ~host[prox[w].target].ext) =>
                EnumeratedKeys(HereNext, w) = EnumeratedKeys(Here, w)]_vars

(***************************************************************************)
(* Identity and distortion: host object 1 (A) may be distorted to host     *)
(* object 2 (B), and B to the host function 4; host object 3 is a blue     *)
(* Proxy whose handler may start throwing, recover, or be revoked.         *)
(***************************************************************************)
IdentityHeap ==
    [h \in HostIds |->
        IF h = 1 THEN PlainObject(Props(Data(Prim(1)), NoDesc, NoDesc), BlueObjectProto)
        ELSE IF h = 2 THEN PlainObject(Props(Data(Prim(2)), Data(Prim(1)), NoDesc), BlueObjectProto)
        ELSE IF h = 3 THEN HostProxy(Props(Data(Prim(1)), NoDesc, NoDesc), "throws")
        ELSE HostFunction("oracle", TRUE)]

Distortions ==
    {NoDistortion,
     [h \in HostIds |-> IF h = 1 THEN 2 ELSE 0],
     [h \in HostIds |-> IF h = 1 THEN 2 ELSE IF h = 2 THEN 4 ELSE 0]}

InitIdentity == InitWith({IdentityHeap}, Distortions)

\* every fundamental operation the guest can perform on proxy w
GuestOp(w) ==
    \/ GuestGet(w, "x", NoOracle)
    \/ GuestSet(w, "x", Prim(2))
    \/ GuestHas(w, "x")
    \/ GuestDelete(w, "x")
    \/ GuestOwnKeys(w)
    \/ GuestGetOwnPropertyDescriptor(w, "x")
    \/ GuestDefineProperty(w, "x", PartialOf(Data(Prim(2))))
    \/ GuestGetPrototypeOf(w)
    \/ GuestSetPrototypeOf(w, Null)
    \/ GuestIsExtensible(w)
    \/ GuestPreventExtensions(w)
    \/ GuestApply(w, NoOracle)
    \/ GuestConstruct(w, NoOracle)

NextIdentity ==
    \/ \E h \in HostIds : ToGuest(h)
    \/ \E w \in 1..Len(prox) : GuestOp(w)
    \/ \E mode \in {"ok", "throws", "revoked"} : HostSetMode(3, mode)
    \/ HostWrite(2, "x", Prim(3))

SpecIdentity == InitIdentity /\ [][NextIdentity]_vars

\* C1 (as stated): every host object or function reaches the guest as one wrapper only: all
\* the calls toGuestValue(h) made so far, whatever happened between them, returned the same
\* proxy.
C1_IdentityStable ==
    \A h \in HostIds : host[h].kind # "array" => Cardinality(handed[h]) <= 1

\* every fundamental operation on proxy w, performed now, fails
AllOperationsFail(w) ==
    /\ \A key \in Keys :
        /\ Threw(Call("ProxyGet", <<Here, w, key, W(w), MaxDepth>>))
        /\ Threw(Call("ProxySet", <<Here, w, key, Prim(2), w, MaxDepth>>))
        /\ Threw(Call("ProxyHas", <<Here, w, key, MaxDepth>>))
        /\ Threw(Call("ProxyDelete", <<Here, w, key, MaxDepth>>))
        /\ Threw(Call("ProxyGetOwnProperty", <<Here, w, key, MaxDepth>>))
        /\ Threw(Call("ProxyDefineOwnProperty", <<Here, w, key, PartialOf(Data(Prim(2))), MaxDepth>>))
    /\ Threw(Call("ProxyOwnKeys", <<Here, w, MaxDepth>>))
    /\ Threw(Call("ProxyGetPrototypeOf", <<Here, w, MaxDepth>>))
    /\ Threw(Call("ProxySetPrototypeOf", <<Here, w, Null, MaxDepth>>))
    /\ Threw(Call("ProxyIsExtensible", <<Here, w, MaxDepth>>))
    /\ Threw(Call("ProxyPreventExtensions", <<Here, w, MaxDepth>>))
    /\ \A oracle \in Oracles :
        /\ Threw(Call("ProxyCall", <<Cur(oracle, FALSE), w, Undef, <<Prim(1)>>, MaxDepth>>))
        /\ Threw(Call("ProxyConstruct", <<Cur(oracle, FALSE), w, <<Prim(1)>>, W(w), MaxDepth>>))

\* the wrapper a call toGuestValue has just minted for a host value whose introspection fails
MintedForBroken ==
    /\ last'.op = "toGuest"
    /\ Len(prox') = Len(prox) + 1
    /\ host[getDistortedValue(last'.h)].mode # "ok"

\* C7: a wrapper minted while the introspection of the host value throws is returned
\* revoked (its metadata is marked broken), and in every later state every operation on a
\* wrapper whose metadata is broken fails, whether or not the host value has recovered.
C7_BrokenTargetRevoked ==
    /\ [][MintedForBroken =>
            /\ last'.val = W(Len(prox'))
            /\ prox'[Len(prox')].meta.isBroken]_vars
    /\ [](\A w \in 1..Len(prox) : prox[w].meta.isBroken => AllOperationsFail(w))

\* C7 witness: a read on a wrapper of a broken target has failed after the host value became
\* introspectable again
C7_Witness ==
    /\ last.op = "get"
    /\ last.w \in 1..Len(prox)
    /\ prox[last.w].meta.isBroken
    /\ host[prox[last.w].target].mode = "ok"
    /\ Threw(last)

\* a call toGuestValue(A) for a host value A with a distortion entry has minted a wrapper
MintedForDistorted ==
    /\ last'.op = "toGuest"
    /\ distortionMap[last'.h] # 0
    /\ Len(prox') = Len(prox) + 1

\* the wrapper just minted is the wrapper that wrapping host value b directly would have
\* minted in the same state: same forwarding target, handler, metadata and shadow target
MintedLikeWrapping(b) ==
    LET r == Call("createRedProxy", <<Here, b>>)
    IN /\ ~Threw(r)
       /\ prox'[Len(prox')] = r.m.prox[Len(r.m.prox)]
       /\ redMap'[Len(prox')] = r.m.rmap[Len(r.m.prox)]

\* C10 (as stated): whenever the distortion table maps A to B, the wrapper minted for A is
\* the wrapper that wrapping B directly mints.
C10_LikeWrappingSubstitute ==
    [][MintedForDistorted => MintedLikeWrapping(distortionMap[last'.h])]_vars

\* C10 (amended): when the distortion table maps A to B and B has no distortion entry of its
\* own, the wrapper minted for A is the wrapper that wrapping B directly mints; it forwards
\* to B, never to A, and minting it changes nothing on the host.
C10_SubstitutesOnce ==
    [][(MintedForDistorted /\ distortionMap[distortionMap[last'.h]] = 0) =>
            /\ MintedLikeWrapping(distortionMap[last'.h])
            /\ prox'[Len(prox')].target = distortionMap[last'.h]
            /\ prox'[Len(prox')].target # last'.h
            /\ host' = host]_vars

\* C10 witness: the guest has read attribute x through a wrapper obtained for a distorted
\* host value and seen the substitute's value
C10_Witness ==
    /\ last.op = "get"
    /\ last.w \in 1..Len(prox)
    /\ \E a \in HostIds :
        /\ W(last.w) \in handed[a]
        /\ distortionMap[a] = prox[last.w].target
        /\ distortionMap[distortionMap[a]] = 0
        /\ last.val = host[distortionMap[a]].props["x"].v

(***************************************************************************)
(* Call and construct crossings: host object 1 has an accessor y whose     *)
(* getter is the host function 3, host object 2 carries the marker and has *)
(* the same accessor; the host functions 3 (a constructor) and 4 complete  *)
(* as the environment decides.                                             *)
(***************************************************************************)
CallHeap ==
    [h \in HostIds |->
        IF h = 1 THEN PlainObject(Props(NoDesc, AccDesc(H(3), Undef, TRUE, TRUE), NoDesc), BlueObjectProto)
        ELSE IF h = 2 THEN PlainObject(Props(NoDesc, AccDesc(H(3), Undef, TRUE, TRUE), Marker), BlueObjectProto)
        ELSE IF h = 3 THEN HostFunction("oracle", TRUE)
        ELSE HostFunction("oracle", FALSE)]

InitCall == InitWith({CallHeap}, {NoDistortion})

NextCall ==
    \/ \E h \in HostIds : ToGuest(h)
    \/ \E w \in 1..Len(prox), oracle \in Oracles : GuestApply(w, oracle)
    \/ \E w \in 1..Len(prox), oracle \in Oracles : GuestConstruct(w, oracle)
    \/ \E w \in 1..Len(prox), oracle \in Oracles : GuestGet(w, "y", oracle)

SpecCall == InitCall /\ [][NextCall]_vars

\* the last guest operation ran a host function, and the host function threw
HostThrew == last.calls # <<>> /\ last.oracle.kind = "throw"

\* C5: when a host function, host accessor or host constructor invoked through a wrapper
\* throws an error whose constructor has a guest counterpart, the guest observes a guest
\* error of that class with the same message.
C5_ErrorClassPreserved ==
    (last.op \in {"apply", "construct", "get"} /\ HostThrew /\ HasRedRef(last.oracle.exc.cls)) =>
        last.exc = RedError(last.oracle.exc.cls, last.oracle.exc.msg)

\* C6: whatever a host call or construct crossing throws, the guest observes a guest-realm
\* error, and a generic guest Error with the same message when the thrown value's
\* constructor has no guest counterpart.
C6_NoRawHostFailure ==
    (last.op \in {"apply", "construct"} /\ HostThrew) =>
        /\ last.exc.realm = "red"
        /\ (last.oracle.exc.cls \notin {"null", "poison"} /\ ~HasRedRef(last.oracle.exc.cls)) =>
                last.exc = RedError("Error", last.oracle.exc.msg)

(***************************************************************************)
(* Conversion of values: host array 1 holds a primitive, the host object 2 *)
(* and the host array 3, which holds the host object 2 and the host        *)
(* function 4.                                                             *)
(***************************************************************************)
ConvertHeap ==
    [h \in HostIds |->
        IF h = 1 THEN HostArray(<<Prim(1), H(2), H(3)>>)
        ELSE IF h = 2 THEN PlainObject(Props(Data(Prim(1)), NoDesc, NoDesc), BlueObjectProto)
        ELSE IF h = 3 THEN HostArray(<<H(2), H(4)>>)
        ELSE HostFunction("oracle", FALSE)]

InitConvert == InitWith({ConvertHeap}, {NoDistortion})

\* null, undefined and primitives of several types
Primitives == {Null, Undef, Prim(0), Prim(1), Prim(2)}

NextConvert ==
    \/ \E h \in HostIds : ToGuest(h)
    \/ \E v \in Primitives : ToGuestPrimitive(v)

SpecConvert == InitConvert /\ [][NextConvert]_vars

\* guest value v is the conversion of the host value e: a primitive unchanged, an object or
\* function as its registered wrapper, an array as a guest array of the same length
ElementConverted(e, v) ==
    IF ~IsHost(e) THEN v = e
    ELSE IF host[e[2]].kind = "array"
    THEN v[1] = "garr" /\ v[2] \in 1..Len(garr) /\ Len(garr[v[2]]) = Len(host[e[2]].elems)
    ELSE blueMap[e[2]] # 0 /\ v = W(blueMap[e[2]])

\* guest array number i is the element-wise conversion of host array h
ArrayConverted(h, i) ==
    /\ i \in 1..Len(garr)
    /\ Len(garr[i]) = Len(host[h].elems)
    /\ \A k \in 1..Len(garr[i]) : ElementConverted(host[h].elems[k], garr[i][k])

\* the step is a successful toGuestValue(h) of a host array h
ConvertedArray ==
    /\ last'.op = "toGuest" /\ last'.h # 0 /\ host[last'.h].kind = "array"
    /\ last'.exc = NoExc

\* C11: toGuestValue of a host array returns a guest array that was not allocated before
\* and was not returned before, registers nothing for the array in the identity map, and
\* every guest array returned for it is its element-wise conversion, so object and function
\* elements are the same wrapper in any two results.
C11_ArraysFreshElementwise ==
    /\ [][ConvertedArray =>
            /\ last'.val[1] = "garr"
            /\ last'.val[2] > Len(garr)
            /\ last'.val \notin handed[last'.h]
            /\ blueMap'[last'.h] = 0]_vars
    /\ [](\A h \in HostIds : host[h].kind = "array" =>
            /\ blueMap[h] = 0
            /\ \A v \in handed[h] : v[1] = "garr" /\ ArrayConverted(h, v[2])
            /\ \A u, v \in handed[h] : \A k \in 1..Len(host[h].elems) :
                (IsHost(host[h].elems[k]) /\ host[host[h].elems[k][2]].kind # "array") =>
                    garr[u[2]][k] = garr[v[2]][k])

\* C11 witness: the same host array was converted twice, into two different guest arrays
\* that hold the same wrapper at index 2
C11_Witness ==
    \E u, v \in handed[1] :
        /\ u # v
        /\ garr[u[2]][2] = garr[v[2]][2]
        /\ IsWrap(garr[u[2]][2])
        /\ garr[u[2]][1] = Prim(1)

\* the step is a toGuestValue of null, undefined or a primitive
ConvertedPrimitive == last'.op = "toGuest" /\ last'.h = 0 /\ guestOps' # guestOps

\* C12: toGuestValue returns null, undefined and every primitive unchanged, creates no
\* wrapper and adds no identity-map entry.
C12_PrimitivesPassThrough ==
    [][ConvertedPrimitive =>
        /\ last'.exc = NoExc
        /\ last'.val = last'.arg
        /\ prox' = prox
        /\ blueMap' = blueMap
        /\ redMap' = redMap
        /\ garr' = garr]_vars

\* C12 witness: a primitive went through toGuestValue after a wrapper had been created
C12_Witness ==
    /\ last.op = "toGuest" /\ last.h = 0
    /\ last.arg = Prim(2) /\ last.val = Prim(2)
    /\ Len(prox) > 0

(***************************************************************************)
(* Re-entrancy: host object 1 holds the blue Proxy 3 as attribute x and a  *)
(* primitive as y; host object 2 has the blue Proxy 3 as parent.  The      *)
(* traps of the blue Proxy call a guest function.                          *)
(***************************************************************************)
ReentrantHeap ==
    [h \in HostIds |->
        IF h = 1 THEN PlainObject(Props(Data(H(3)), Data(Prim(1)), NoDesc), BlueObjectProto)
        ELSE IF h = 2 THEN PlainObject(Props(Data(Prim(1)), NoDesc, NoDesc), H(3))
        ELSE IF h = 3 THEN HostProxy(Props(Data(Prim(2)), NoDesc, NoDesc), "ok")
        ELSE HostFunction("oracle", FALSE)]

InitReentrant == InitWith({ReentrantHeap}, {NoDistortion})

\* the guest function called back evaluates (key in w) for a proxy w the guest holds
Callbacks == {[h |-> 3, w |-> w, key |-> k] : w \in ProxIds, k \in DataKeys}

NextReentrant ==
    \/ \E h \in HostIds : ToGuest(h)
    \/ \E h \in HostIds, cb \in Callbacks : cb.w \in 1..Len(prox) /\ ToGuestReentrant(h, cb)
    \/ \E w \in 1..Len(prox) : GuestOp(w)
    \/ \E w \in 1..Len(prox), k \in DataKeys, cb \in Callbacks :
            cb.w \in 1..Len(prox) /\ GuestHasReentrant(w, k, cb)

SpecReentrant == InitReentrant /\ [][NextReentrant]_vars

\* the re-entrant observations of the last crossing
Observations == {i \in 1..Len(last.obs) : last.obs[i].ev = "observe"}

\* C13: what a re-entrant operation observes on a wrapper during a crossing is what the
\* same operation observes on that wrapper once the crossing has completed, so that no
\* partially populated shadow target is ever observed.
C13_NoHalfInitializedObserved ==
    \A i \in Observations :
        LET o == last.obs[i]
            r == Call("ProxyHas", <<Here, o.w, o.key, MaxDepth>>)
        IN o.seen = (IF Threw(r) THEN <<"threw", r.exc>> ELSE <<"returned", r.val>>)

\* how many times the step populated the shadow target of proxy w
Populations(w) == Cardinality({i \in 1..Len(last'.obs) :
                                  last'.obs[i].ev = "populate" /\ last'.obs[i].w = w})

\* the operations that only read the shadow target
ReadOps == {"get", "has", "ownKeys", "getOwnPropertyDescriptor", "getPrototypeOf", "isExtensible"}

\* the shadow target of w in the state after the step holds the captured parent, the
\* captured string-keyed attributes and the captured extensibility
Populated(w) ==
    LET meta == prox[w].meta
        sh == prox'[w].shadow
    IN /\ \A k \in DataKeys : sh.props[k].k = meta.descs[k].k
       /\ IF IsHost(meta.proto) THEN sh.proto = W(blueMap'[meta.proto[2]])
          ELSE sh.proto = RedObjectProto
       /\ sh.ext = meta.isExtensible

\* the operation of the step on proxy w reaches a trap of the handler: apply needs a
\* callable proxy and construct a constructor
Intercepted(w) ==
    \/ last'.op \in StaticOps
    \/ last'.op = "apply" /\ prox'[w].callable
    \/ last'.op = "construct" /\ prox'[w].ctor

\* C17: a step populates the shadow target of a static proxy at most once, and not at all
\* when it was populated before; every operation on a static proxy leaves it initialized,
\* and the first one, when it is a read, leaves the shadow target with the captured
\* parent, attributes and extensibility.
C17_InitializedOnce ==
    [][\A w \in 1..Len(prox') :
        (prox'[w].handler = "static") =>
            /\ Populations(w) <= 1
            /\ (w <= Len(prox) /\ prox[w].init) => (Populations(w) = 0 /\ prox'[w].init)
            /\ (w <= Len(prox) /\ ~prox[w].init /\ prox'[w].init) => Populations(w) = 1
            /\ (last'.w = w /\ guestOps' # guestOps /\ Intercepted(w)) => prox'[w].init
            /\ (last'.w = w /\ guestOps' # guestOps /\ w <= Len(prox) /\ ~prox[w].init
                /\ last'.op \in ReadOps /\ last'.exc = NoExc) => Populated(w)]_vars

\* C17 witness: the wrapper of host object 1 was initialized by an operation during which
\* a re-entrant operation on the same wrapper ran
C17_Witness ==
    /\ last.op = "has" /\ last.w \in 1..Len(prox)
    /\ prox[last.w].target = 1 /\ prox[last.w].init
    /\ \E i, j \in 1..Len(last.obs) :
        /\ i < j
        /\ last.obs[i].ev = "populate" /\ last.obs[i].w = last.w
        /\ last.obs[j].ev = "observe" /\ last.obs[j].w = last.w

(***************************************************************************)
(* Registration: host object 1, a blue Proxy whose traps throw (2), a      *)
(* revoked blue Proxy (3) and a host function (4).                         *)
(***************************************************************************)
RegistrationHeap ==
    [h \in HostIds |->
        IF h = 1 THEN PlainObject(Props(Data(Prim(1)), NoDesc, NoDesc), BlueObjectProto)
        ELSE IF h = 2 THEN HostProxy(Props(Data(Prim(1)), NoDesc, NoDesc), "throws")
        ELSE IF h = 3 THEN HostProxy(Props(Data(Prim(1)), NoDesc, NoDesc), "revoked")
        ELSE HostFunction("oracle", FALSE)]

InitRegistration == InitWith({RegistrationHeap}, {NoDistortion})

NextRegistration ==
    \/ \E h \in HostIds : ToGuest(h)
    \/ \E h \in HostIds : ToGuestRegistrationFails(h)
    \/ \E w \in 1..Len(prox) : GuestOp(w)

SpecRegistration == InitRegistration /\ [][NextRegistration]_vars

\* ErrorCreate('Internal Error')
InternalError == RedError("Error", Prim(99))

\* the step is a toGuestValue that created a proxy whose registration failed
RegistrationFailed ==
    /\ last'.op = "toGuestRegistrationFails"
    /\ guestOps' # guestOps
    /\ Len(prox') > Len(prox)

\* C14: a toGuestValue during which the registration of the created proxy fails throws
\* the generic guest error 'Internal Error' and returns no proxy, whether the target is
\* intact or broken.
C14_RegistrationFailureGeneric ==
    [][RegistrationFailed =>
        /\ last'.exc = InternalError
        /\ handed' = handed]_vars

(***************************************************************************)
(* Invocation: host object 1, a host constructor that carries the marker   *)
(* (2), a host constructor (3) and a host arrow function (4).              *)
(***************************************************************************)
InvokeHeap ==
    [h \in HostIds |->
        IF h = 1 THEN PlainObject(Props(Data(Prim(1)), NoDesc, NoDesc), BlueObjectProto)
        ELSE IF h = 2 THEN [HostFunction("oracle", TRUE) EXCEPT !.props = Props(NoDesc, NoDesc, Marker)]
        ELSE IF h = 3 THEN HostFunction("oracle", TRUE)
        ELSE HostFunction("oracle", FALSE)]

InitInvoke == InitWith({InvokeHeap}, {NoDistortion})

NextInvoke ==
    \/ \E h \in HostIds : ToGuest(h)
    \/ \E w \in 1..Len(prox), oracle \in Oracles : GuestApply(w, oracle)
    \/ \E w, t \in 1..Len(prox), oracle \in Oracles : GuestApplyOn(w, t, oracle)
    \/ \E w \in 1..Len(prox), oracle \in Oracles : GuestConstruct(w, oracle)
    \/ \E w \in 1..Len(prox) : GuestGetPrototypeOf(w)

SpecInvoke == InitInvoke /\ [][NextInvoke]_vars

\* the last step was a call or a construct that the proxy accepts
Invoked ==
    /\ last.op \in {"apply", "construct"}
    /\ last.w \in 1..Len(prox)
    /\ prox[last.w].handler # "revoked"
    /\ IF last.op = "apply" THEN prox[last.w].callable ELSE prox[last.w].ctor

\* the host form of a guest value the guest passed: a proxy as its target
BlueOf(v) == IF IsWrap(v) THEN H(prox[v[2]].target) ELSE v

\* the guest form of a host value the hook returned
RedOf(v) == IF IsHost(v) THEN W(blueMap[v[2]]) ELSE v

\* C15: a call or a construct on a proxy runs the host function exactly once, through the
\* hook, with the proxy's target, the host form of this (of newTarget for a construct) and
\* the host form of the arguments, and a result that is returned is the guest form of
\* what the hook returned.
C15_ThroughHooksOnce ==
    Invoked =>
        /\ Len(last.calls) = 1
        /\ last.calls[1] = <<H(prox[last.w].target),
                             IF last.op = "apply" THEN BlueOf(last.arg) ELSE H(prox[last.w].target),
                             <<Prim(1)>>>>
        /\ (last.oracle.kind = "ret" /\ last.exc = NoExc) => last.val = RedOf(last.oracle.val)
        /\ (last.oracle.kind = "throw") => last.exc # NoExc

\* C15 witness: a proxy with the dynamic handler, never used before, was called with a
\* proxy as this and returned the proxy of the host object the host function returned
C15_Witness ==
    /\ Invoked
    /\ last.op = "apply" /\ IsWrap(last.arg)
    /\ prox[last.w].handler = "dynamic"
    /\ last.oracle.kind = "ret" /\ IsHost(last.oracle.val)
    /\ IsWrap(last.val)

(***************************************************************************)
(* Handler selection: host object 1 carries a configurable marker, host    *)
(* object 2 carries none, host function 3 carries the marker, host         *)
(* function 4 carries none.  The host adds and removes the marker.         *)
(***************************************************************************)
SelectHeap ==
    [h \in HostIds |->
        IF h = 1 THEN PlainObject(Props(Data(Prim(1)), NoDesc, Data(Prim(1))), BlueObjectProto)
        ELSE IF h = 2 THEN PlainObject(Props(Data(Prim(1)), NoDesc, NoDesc), BlueObjectProto)
        ELSE IF h = 3 THEN [HostFunction("oracle", TRUE) EXCEPT !.props = Props(NoDesc, NoDesc, Marker)]
        ELSE HostFunction("oracle", FALSE)]

\* no distortion, or host object 2 is distorted to host object 1
SelectDistortions == {NoDistortion, [NoDistortion EXCEPT ![2] = 1]}

InitSelect == InitWith({SelectHeap}, SelectDistortions)

NextSelect ==
    \/ \E h \in HostIds : ToGuest(h)
    \/ \E h \in {1, 2} : HostDefineProperty(h, LockerLiveValueMarkerSymbol, PartialOf(Data(Prim(1))))
    \/ \E h \in {1, 2} : HostDeleteProperty(h, LockerLiveValueMarkerSymbol)
    \/ \E h \in {1, 2} : HostDeleteProperty(h, "x")
    \/ \E w \in 1..Len(prox) : GuestHas(w, "x")

SpecSelect == InitSelect /\ [][NextSelect]_vars

\* the host value carries the marker as an own attribute
CarriesMarker(o) == o.props[LockerLiveValueMarkerSymbol].k # "none"

\* the step is a host step that adds the marker to a host value or removes it
MarkerChanged ==
    /\ last'.key = LockerLiveValueMarkerSymbol
    /\ \E h \in HostIds : CarriesMarker(host'[h]) # CarriesMarker(host[h])

\* C16: a proxy created by a step has the dynamic handler exactly if the host value it
\* wraps (the distortion of the value converted) carries the marker in that step, and the
\* static handler otherwise; the handler of an existing proxy never changes, and when the
\* host adds or removes the marker a static proxy answers every query as before and a
\* dynamic proxy keeps answering from the host value.
C16_HandlerChosenAtCreation ==
    [][/\ \A w \in 1..Len(prox') :
            IF w > Len(prox)
            THEN prox'[w].handler = (IF CarriesMarker(host[prox'[w].target]) THEN "dynamic" ELSE "static")
            ELSE prox'[w].handler = prox[w].handler
       /\ MarkerChanged => \A w \in 1..Len(prox) :
            IF prox[w].handler = "static"
            THEN Structure(HereNext, w) = Structure(Here, w)
            ELSE Seen(Call("ProxyHas", <<HereNext, w, "x", MaxDepth>>))
                    = <<"returned", host'[prox[w].target].props["x"].k # "none">>]_vars

\* C16 witness: a dynamic proxy whose host value no longer carries the marker and a static
\* proxy whose host value now carries it
C16_Witness ==
    /\ \E w \in 1..Len(prox) : prox[w].handler = "dynamic" /\ ~CarriesMarker(host[prox[w].target])
    /\ \E w \in 1..Len(prox) : prox[w].handler = "static" /\ CarriesMarker(host[prox[w].target])

\* the attribute new keeps everything a non-configurable attribute old must keep
Preserved(old, new) ==
    /\ new.k = old.k
    /\ new.e = old.e
    /\ new.c = old.c
    /\ (old.k = "data" /\ ~old.w) => (new.v = old.v /\ ~new.w)
    /\ (old.k = "acc") => (new.g = old.g /\ new.s = old.s)

\* the defineProperty calls the last crossing made on shadow targets that failed
FailedInstalls ==
    {i \in 1..Len(last.obs) : last.obs[i].ev = "install" /\ last.obs[i].seen = <<"returned", FALSE>>}

\* C18: no step changes the kind, enumerability or configurability, or the value when it
\* is not writable, of an attribute that is non-configurable on a shadow target, and every
\* defineProperty that copies a host attribute onto a shadow target is accepted.
C18_ShadowNeverReshaped ==
    /\ [][\A w \in 1..Len(prox) : \A key \in Keys :
            LET old == prox[w].shadow.props[key]
            IN (old.k # "none" /\ ~old.c) => Preserved(old, prox'[w].shadow.props[key])]_vars
    /\ [](FailedInstalls = {})

(***************************************************************************)
(* Snapshot: host object 1 has the attribute x and an attribute keyed by a *)
(* symbol; the host mutates it between the creation of its proxy and the   *)
(* first operation on the proxy.                                           *)
(***************************************************************************)
SnapshotHeap ==
    [h \in HostIds |->
        IF h = 1 THEN PlainObject([Props(Data(Prim(1)), NoDesc, NoDesc) EXCEPT ![SymbolIterator] = Data(Prim(1))],
                                  H(3))
        ELSE IF h = 2 THEN HostArray(<<Prim(1)>>)
        ELSE IF h = 3 THEN PlainObject(Props(NoDesc, Data(Prim(1)), NoDesc), BlueObjectProto)
        ELSE HostFunction("oracle", FALSE)]

InitSnapshot == InitWith({SnapshotHeap}, {NoDistortion})

NextSnapshot ==
    \/ ToGuest(1)
    \/ HostMutation(1)
    \/ \E w \in ProxiesOf(1) : StaticGuestRead(w)

SpecSnapshot == InitSnapshot /\ [][NextSnapshot]_vars

\* a static proxy on which no operation has run yet
Untouched(w) == w \in 1..Len(prox) /\ prox[w].handler = "static" /\ ~prox[w].init

\* the keys the host value had when the proxy was created
KeysAtCreation(w) == {k \in Keys : prox[w].meta.descs[k].k # "none"}

\* C19: a host mutation made while no operation has run on a static proxy changes nothing
\* the proxy will answer, and once an operation has run the proxy enumerates the keys,
\* and reports the extensibility, the host value had when the proxy was created.
C19_SnapshotAtCreation ==
    /\ [][hostOps' # hostOps =>
            \A w \in 1..Len(prox) : Untouched(w) =>
                /\ Structure(HereNext, w) = Structure(Here, w)
                /\ Reads(HereNext, w) = Reads(Here, w)]_vars
    /\ [](\A w \in 1..Len(prox) : InitializedStatic(w) =>
            /\ EnumeratedKeys(Here, w) = <<"returned", KeysAtCreation(w)>>
            /\ Seen(Call("ProxyIsExtensible", <<Here, w, MaxDepth>>))
                = <<"returned", prox[w].meta.isExtensible /\ ~prox[w].meta.isFrozen /\ ~prox[w].meta.isSealed>>)

(***************************************************************************)
(* Install policy.  The shadow target of a function proxy is a function,   *)
(* which has own attributes before the initialization (prototype is        *)
(* non-configurable and writable, name and length are configurable).  Host *)
(* function 1 has been converted; the attribute x of its shadow target is  *)
(* absent, configurable, non-configurable and writable, or non-            *)
(* configurable and non-writable, and the captured x is a primitive, a     *)
(* host object or an accessor.  A symbol-keyed attribute was captured too. *)
(***************************************************************************)
ShadowAttributes ==
    {NoDesc,
     DataDesc(Prim(0), FALSE, FALSE, TRUE),
     AccDesc(Undef, Undef, FALSE, TRUE),
     DataDesc(Prim(0), TRUE, FALSE, FALSE),
     DataDesc(Prim(0), FALSE, FALSE, FALSE),
     AccDesc(Undef, Undef, FALSE, FALSE)}

CapturedAttributes ==
    {Data(Prim(1)), Data(H(3)), AccDesc(H(4), Undef, TRUE, TRUE), DataDesc(Prim(1), FALSE, TRUE, FALSE)}

InstallHeap(x) ==
    [h \in HostIds |->
        IF h = 1 THEN [HostFunction("oracle", TRUE) EXCEPT
                          !.props = [Props(x, Data(Prim(1)), NoDesc) EXCEPT ![SymbolIterator] = Data(Prim(1))]]
        ELSE IF h = 2 THEN PlainObject(NoProps, BlueObjectProto)
        ELSE IF h = 3 THEN PlainObject(Props(Data(Prim(1)), NoDesc, NoDesc), BlueObjectProto)
        ELSE HostFunction("getX", FALSE)]

InitInstall ==
    /\ host \in {InstallHeap(x) : x \in CapturedAttributes}
    /\ distortionMap = NoDistortion
    /\ \E sx \in ShadowAttributes :
        prox = <<[NewProxy([host |-> host], 1, "static", getTargetMeta([host |-> host], 1))
                    EXCEPT !.shadow.props["x"] = sx]>>
    /\ blueMap = [h \in HostIds |-> IF h = 1 THEN 1 ELSE 0]
    /\ redMap = [w \in ProxIds |-> IF w = 1 THEN 1 ELSE 0]
    /\ garr = <<>>
    /\ handed = [h \in HostIds |-> IF h = 1 THEN {W(1)} ELSE {}]
    /\ hostOps = 0
    /\ guestOps = 0
    /\ last = NoLast
    /\ win = NoWindow

NextInstall ==
    \/ \E h \in HostIds : ToGuest(h)
    \/ \E w \in 1..Len(prox) : GuestOp(w)

SpecInstall == InitInstall /\ [][NextInstall]_vars

\* the guest form of a captured descriptor, in the state after the step
RedDescriptorOf(d) == Call("getRedDescriptor", <<HereNext, d, MaxDepth>>).val

\* what the install policy makes of the shadow attribute old for the captured descriptor
Installed(old, captured) ==
    IF old.k = "none" \/ old.c THEN captured
    ELSE IF old.k = "data" /\ old.w THEN [old EXCEPT !.v = captured.v]
    ELSE old

\* the step ran the initialization of proxy w to completion, and nothing else on w
Initialized(w) ==
    /\ ~prox[w].init /\ prox'[w].init
    /\ last'.op \in ReadOps \cup {"apply"}
    /\ last'.oracle.kind = "ret"

\* C20: the initialization of a static proxy leaves, for every captured attribute key, the
\* guest form of the captured descriptor on the shadow target when the shadow target had
\* no such attribute or a configurable one, the old attribute with the captured value when
\* it was non-configurable and writable, and the old attribute otherwise.
C20_InstallPolicy ==
    [][\A w \in 1..Len(prox) : Initialized(w) =>
        \A key \in KeysAtCreation(w) :
            prox'[w].shadow.props[key]
                = Installed(prox[w].shadow.props[key], RedDescriptorOf(prox[w].meta.descs[key]))]_vars

(***************************************************************************)
(* Lifecycle.  Host object 1 has the attributes x and y and an attribute   *)
(* keyed by a symbol, each absent, plain, non-configurable or              *)
(* non-configurable and non-writable, and is extensible or not: every      *)
(* lifecycle (frozen, sealed, non-extensible only, extensible) occurs.  The*)
(* host does not change it.                                                *)
(***************************************************************************)
LifecycleAttributes ==
    {NoDesc, Data(Prim(1)), DataDesc(Prim(1), TRUE, TRUE, FALSE), DataDesc(Prim(1), FALSE, TRUE, FALSE)}

LifecycleHeap(x, y, s, ext) ==
    [h \in HostIds |->
        IF h = 1 THEN [PlainObject([Props(x, y, NoDesc) EXCEPT ![SymbolIterator] = s], H(3))
                          EXCEPT !.ext = ext]
        ELSE IF h = 2 THEN PlainObject(NoProps, BlueObjectProto)
        ELSE IF h = 3 THEN PlainObject(Props(NoDesc, Data(Prim(2)), NoDesc), BlueObjectProto)
        ELSE HostFunction("getX", FALSE)]

InitLifecycle ==
    InitWith({LifecycleHeap(x, y, s, ext) :
                 x \in LifecycleAttributes, y \in {NoDesc, DataDesc(Prim(1), FALSE, TRUE, FALSE)},
                 s \in LifecycleAttributes, ext \in BOOLEAN},
             {NoDistortion})

NextLifecycle ==
    \/ ToGuest(1)
    \/ \E w \in ProxiesOf(1) : StaticGuestRead(w)

SpecLifecycle == InitLifecycle /\ [][NextLifecycle]_vars

\* C21: once a static proxy is initialized its shadow target is frozen iff the host value
\* was frozen when the proxy was created, sealed iff it was sealed, extensible iff it was
\* extensible, has the converted parent, and the proxy of a frozen host value enumerates
\* every attribute key of the host value.
C21_LifecycleFidelity ==
    \A w \in 1..Len(prox) : InitializedStatic(w) =>
        LET o == host[prox[w].target]
            shadowTarget == prox[w].shadow
        IN /\ IsFrozenObj(shadowTarget) = IsFrozenObj(o)
           /\ IsSealedObj(shadowTarget) = IsSealedObj(o)
           /\ shadowTarget.ext = o.ext
           /\ Seen(Call("ProxyIsExtensible", <<Here, w, MaxDepth>>)) = <<"returned", o.ext>>
           /\ IsFrozenObj(o) => EnumeratedKeys(Here, w) = <<"returned", OwnKeysOf(o)>>

\* the same over the host values without symbol-keyed attributes
C21_StringKeyedLifecycle ==
    \A w \in 1..Len(prox) :
        InitializedStatic(w) /\ host[prox[w].target].props[SymbolIterator].k = "none" =>
            LET o == host[prox[w].target]
                shadowTarget == prox[w].shadow
            IN /\ IsFrozenObj(shadowTarget) = IsFrozenObj(o)
               /\ IsSealedObj(shadowTarget) = IsSealedObj(o)
               /\ shadowTarget.ext = o.ext
               /\ IsFrozenObj(o) => EnumeratedKeys(Here, w) = <<"returned", OwnKeysOf(o)>>

(***************************************************************************)
(* Extraction failures.  Host value 1 is a blue Proxy around {x: 1} and    *)
(* host value 2 a blue Proxy around a function; the introspection of each  *)
(* succeeds or fails at one of the four steps of the extraction.  Host     *)
(* value 3 is a plain object and host value 4 a plain function.            *)
(***************************************************************************)
ExtractionModes == {"ok", "throws", "revoked", "throwsDescriptors", "throwsExtensible", "revokes"}

ExtractionHeap(mode1, mode2) ==
    [h \in HostIds |->
        IF h = 1 THEN HostProxy(Props(Data(Prim(1)), NoDesc, NoDesc), mode1)
        ELSE IF h = 2 THEN [HostFunction("oracle", TRUE) EXCEPT !.mode = mode2, !.exotic = TRUE]
        ELSE IF h = 3 THEN PlainObject(Props(Data(Prim(1)), NoDesc, NoDesc), BlueObjectProto)
        ELSE HostFunction("oracle", TRUE)]

InitExtraction ==
    InitWith({ExtractionHeap(mode1, mode2) : mode1, mode2 \in ExtractionModes}, {NoDistortion})

NextExtraction ==
    \/ \E h \in HostIds : ToGuest(h)
    \/ \E w \in 1..Len(prox) : GuestOp(w)

SpecExtraction == InitExtraction /\ [][NextExtraction]_vars

\* the introspection of host value h throws at some step of the extraction
ExtractionFails(h) == ExtractionFailsAt(host[h]) # 0

\* C22: whatever the step at which the introspection of a host value throws, the metadata
\* extracted for it is broken with a null parent and no attribute, and toGuestValue of such
\* a value throws nothing and returns a revoked proxy.
C22_ExtractionFailureBroken ==
    /\ [](\A h \in HostIds : ExtractionFails(h) =>
            LET meta == getTargetMeta(Here, h)
            IN meta.isBroken /\ meta.proto = Null /\ meta.descs = NoProps)
    /\ [][last'.op = "toGuest" /\ guestOps' # guestOps /\ ExtractionFails(last'.h) =>
            /\ last'.exc = NoExc
            /\ IsWrap(last'.val)
            /\ prox'[last'.val[2]].handler = "revoked"
            /\ prox'[last'.val[2]].meta.isBroken
            /\ host'[last'.h].mode # "ok"]_vars

\* C22 witness: toGuestValue has returned a revoked proxy for a blue Proxy whose parent and
\* attribute map could be read and whose probe failed because it revoked itself meanwhile
C22_Witness ==
    /\ last.op = "toGuest"
    /\ last.h = 1
    /\ host[1].mode = "revoked"
    /\ host[2].mode = "throwsExtensible"
    /\ blueMap[2] # 0
    /\ IsWrap(last.val)
    /\ prox[last.val[2]].handler = "revoked"
    /\ Len(prox) = 2

(***************************************************************************)
(* The extensibility query of a dynamic proxy.                             *)
(***************************************************************************)
\* the machine state in which every introspection of host value h throws
Unreachable(m, h) == [m EXCEPT !.host[h].mode = "throws"]

\* C23: isExtensible on a dynamic proxy whose shadow target is locked returns false, also
\* when the host value cannot be introspected; otherwise it returns true, changing nothing,
\* when the host value is extensible, and when it is not it returns false and leaves the
\* shadow target locked with every own key of the host value; a shadow target once locked
\* stays locked, and a query that returned false has locked it.
C23_DynamicIsExtensible ==
    /\ [](\A w \in 1..Len(prox) : Dynamic(w) =>
            LET target == prox[w].target
                r == Call("ProxyIsExtensible", <<Here, w, MaxDepth>>)
            IN IF ~prox[w].shadow.ext
               THEN /\ Seen(r) = <<"returned", FALSE>>
                    /\ r.m = Here
                    /\ Seen(Call("ProxyIsExtensible", <<Unreachable(Here, target), w, MaxDepth>>))
                         = <<"returned", FALSE>>
               ELSE IF host[target].ext
               THEN Seen(r) = <<"returned", TRUE>> /\ r.m = Here
               ELSE r.m.ovf \/
                    /\ Seen(r) = <<"returned", FALSE>>
                    /\ ~r.m.prox[w].shadow.ext
                    /\ OwnKeysOf(r.m.prox[w].shadow) = OwnKeysOf(host[target])
                    /\ r.m.host = host)
    /\ [](\A w \in 1..Len(prox) :
            (Dynamic(w) /\ last.op = "isExtensible" /\ last.w = w /\ Seen(last) = <<"returned", FALSE>>)
                => ~prox[w].shadow.ext)
    /\ [][\A w \in 1..Len(prox) : (Dynamic(w) /\ ~prox[w].shadow.ext) => ~prox'[w].shadow.ext]_vars

\* C23 witness: the host made the host value non-extensible and the first operation of the
\* guest on its dynamic proxy, an isExtensible query, has returned false and locked the
\* shadow target with the host value's keys
C23_Witness ==
    /\ last.op = "isExtensible"
    /\ Dynamic(last.w)
    /\ Seen(last) = <<"returned", FALSE>>
    /\ guestOps = 2
    /\ hostOps > 0
    /\ ~prox[last.w].shadow.ext
    /\ "x" \in OwnKeysOf(prox[last.w].shadow)

(***************************************************************************)
(* Prevent-extensions on a dynamic proxy.  Host value 1 carries the marker *)
(* and is a blue Proxy whose preventExtensions trap forwards, rejects, or  *)
(* makes its target non-extensible and rejects; its target is extensible   *)
(* or not.                                                                 *)
(***************************************************************************)
PreventHeap(beh, ext) ==
    [h \in HostIds |->
        IF h = 1 THEN [HostProxy(Props(Data(Prim(1)), NoDesc, Marker), "ok")
                          EXCEPT !.beh = beh, !.ext = ext]
        ELSE IF h = 2 THEN HostArray(<<Prim(1)>>)
        ELSE IF h = 3 THEN PlainObject(NoProps, BlueObjectProto)
        ELSE HostFunction("oracle", FALSE)]

InitPrevent ==
    InitWith({PreventHeap(beh, ext) : beh \in {"none", "rejects", "locksAndRejects"}, ext \in BOOLEAN},
             {NoDistortion})

NextPrevent ==
    \/ ToGuest(1)
    \/ \E w \in ProxiesOf(1) : DynamicGuestRead(w)
    \/ \E w \in ProxiesOf(1) : DynamicGuestWrite(w)

SpecPrevent == InitPrevent /\ [][NextPrevent]_vars

\* what preventExtensions on the dynamic proxy w does in the current state, against what
\* Reflect.preventExtensions does to its host value
PreventsLikeHost(w) ==
    LET target == prox[w].target
        p == HostReflectPreventExtensions(Here, target)
        r == Call("ProxyPreventExtensions", <<Here, w, MaxDepth>>)
    IN r.m.ovf \/
       /\ Seen(r) = <<"returned", p.ok>>
       /\ r.m.host = [host EXCEPT ![target] = p.obj]
       /\ IF p.obj.ext THEN r.m.prox[w].shadow = prox[w].shadow
          ELSE /\ ~r.m.prox[w].shadow.ext
               /\ OwnKeysOf(r.m.prox[w].shadow) = OwnKeysOf(p.obj)

HostRefuses(w, key, pd) ==
    ~OrdDefine(host[prox[w].target], key, getBluePartialDescriptor(Here, pd)).ok

\* C25: defineProperty on a dynamic proxy returns true whenever nothing on the host side
\* throws, whether the host value accepted the definition or refused it and stayed unchanged.
C25_DefineReportsSuccess ==
    \A w \in 1..Len(prox) : Dynamic(w) =>
        \A key \in DataKeys, pd \in GuestDescriptors :
            LET r == Call("ProxyDefineOwnProperty", <<Here, w, key, pd, MaxDepth>>)
            IN r.m.ovf \/
               /\ Seen(r) = <<"returned", TRUE>>
               /\ HostRefuses(w, key, pd) => r.m.host = host

\* the same of the value the trap returns, before the Proxy checks it against the shadow
\* target
C25_TrapReturnsTrue ==
    \A w \in 1..Len(prox) : Dynamic(w) =>
        \A key \in DataKeys, pd \in GuestDescriptors :
            LET r == Call("RedDynamicProxyHandler_defineProperty", <<Here, w, key, pd, MaxDepth>>)
            IN r.m.ovf \/
               /\ Seen(r) = <<"returned", TRUE>>
               /\ HostRefuses(w, key, pd) => r.m.host = host

\* the definition of key by the guest descriptor pd through the dynamic proxy w succeeds on
\* the host value and leaves the host attribute non-configurable
DefinesNonConfigurable(w, key, pd) ==
    LET d == OrdDefine(host[prox[w].target], key, getBluePartialDescriptor(Here, pd))
    IN d.ok /\ ~d.obj.props[key].c

\* the shadow target of w has, after the completion r, the non-configurable attribute key
\* of the kind the host attribute has
Mirrored(r, w, key) ==
    LET mirror == r.m.prox[w].shadow.props[key]
    IN /\ mirror.k = r.m.host[prox[w].target].props[key].k
       /\ ~mirror.c

\* C26: whenever a defineProperty through a dynamic proxy succeeds on the host value and the
\* resulting host attribute is non-configurable, the attribute is on the shadow target
\* afterwards, whatever fields the descriptor had.
C26_NonConfigurableMirrored ==
    \A w \in 1..Len(prox) : Dynamic(w) =>
        \A key \in DataKeys, pd \in GuestDescriptors :
            LET r == Call("ProxyDefineOwnProperty", <<Here, w, key, pd, MaxDepth>>)
            IN (DefinesNonConfigurable(w, key, pd) /\ ~Bad(r)) => Mirrored(r, w, key)

\* the same for the descriptors that have the field configurable, with the value false
C26_ExplicitNonConfigurableMirrored ==
    \A w \in 1..Len(prox) : Dynamic(w) =>
        \A key \in DataKeys, pd \in GuestDescriptors :
            LET r == Call("ProxyDefineOwnProperty", <<Here, w, key, pd, MaxDepth>>)
            IN (DefinesNonConfigurable(w, key, pd) /\ "c" \in pd.has /\ ~Bad(r))
                   => Mirrored(r, w, key)

(***************************************************************************)
(* Writes through a dynamic proxy.                                         *)
(***************************************************************************)
\* in machine state m, get / has / getPrototypeOf on the dynamic proxy w return the guest
\* conversion of what its host value holds
Live(m, w) ==
    LET t == m.prox[w].target IN
    /\ \A key \in DataKeys :
        /\ Seen(Call("ProxyGet", <<m, w, key, W(w), MaxDepth>>))
                = Seen(Converted(Call("HostGet", <<m, t, key, H(t)>>)))
        /\ Seen(Call("ProxyHas", <<m, w, key, MaxDepth>>)) = Seen(Call("HostHas", <<m, t, key>>))
    /\ Seen(Call("ProxyGetPrototypeOf", <<m, w, MaxDepth>>))
            = Seen(Converted(Ret(m, m.host[t].proto)))

\* the completion r of a write through w left the shadow target of w as it was
ShadowUntouched(r, w) == r.m.prox[w].shadow = prox[w].shadow

\* the completion r of a write through w left the host as the host-side operation hs does
AppliedToHost(r, hs) == r.m.host = hs.m.host

\* C27: set, deleteProperty and setPrototypeOf on a dynamic proxy change the host value as
\* the same operation on the host value with the converted arguments does, leave the shadow
\* target as it was, and the reads through the proxy, live before, are live afterwards.
C27_DynamicTwoWay ==
    \A w \in 1..Len(prox) : (Dynamic(w) /\ Live(Here, w)) =>
        LET t == prox[w].target IN
        /\ \A key \in DataKeys, v \in GuestValues :
            LET r == Call("ProxySet", <<Here, w, key, v, w, MaxDepth>>)
            IN r.m.ovf \/
               /\ AppliedToHost(r, Call("HostSet", <<Here, t, key, getBlueValue(Here, v), H(t)>>))
               /\ ShadowUntouched(r, w)
               /\ Live(r.m, w)
        /\ \A key \in DataKeys :
            LET r == Call("ProxyDelete", <<Here, w, key, MaxDepth>>)
            IN r.m.ovf \/
               /\ AppliedToHost(r, Ret([Here EXCEPT !.host[t] = OrdDelete(host[t], key).obj], Undef))
               /\ ShadowUntouched(r, w)
               /\ Live(r.m, w)
        /\ \A p \in GuestParents :
            LET r == Call("ProxySetPrototypeOf", <<Here, w, p, MaxDepth>>)
            IN r.m.ovf \/
               /\ AppliedToHost(r, Ret([Here EXCEPT !.host[t] =
                                    HostOrdSetPrototypeOf(Here, t, getBlueValue(Here, p)).obj], Undef))
               /\ ShadowUntouched(r, w)
               /\ Live(r.m, w)

\* the same over the proxies whose shadow target has not been locked
C27_TwoWayWhileUnlocked ==
    \A w \in 1..Len(prox) : (Dynamic(w) /\ Live(Here, w) /\ prox[w].shadow.ext) =>
        LET t == prox[w].target IN
        /\ \A key \in DataKeys, v \in GuestValues :
            LET r == Call("ProxySet", <<Here, w, key, v, w, MaxDepth>>)
            IN r.m.ovf \/ (ShadowUntouched(r, w) /\ Live(r.m, w))
        /\ \A key \in DataKeys :
            LET r == Call("ProxyDelete", <<Here, w, key, MaxDepth>>)
            IN r.m.ovf \/ (ShadowUntouched(r, w) /\ Live(r.m, w))
        /\ \A p \in GuestParents :
            LET r == Call("ProxySetPrototypeOf", <<Here, w, p, MaxDepth>>)
            IN r.m.ovf \/ (ShadowUntouched(r, w) /\ Live(r.m, w))

(***************************************************************************)
(* Cyclic graphs.  Host object 1 holds itself in x and host object 2 in y; *)
(* the parent of 2 is 1 and 2 holds 1 in x; the parent of 1 is host object *)
(* 3, which holds 1 in y; the host function 4 holds itself in x.  Object 1 *)
(* carries the marker or not.                                              *)
(***************************************************************************)
CycleHeap(marker) ==
    [h \in HostIds |->
        IF h = 1 THEN PlainObject(Props(Data(H(1)), Data(H(2)), marker), H(3))
        ELSE IF h = 2 THEN PlainObject(Props(Data(H(1)), NoDesc, NoDesc), H(1))
        ELSE IF h = 3 THEN PlainObject(Props(NoDesc, Data(H(1)), NoDesc), BlueObjectProto)
        ELSE [HostFunction("oracle", FALSE) EXCEPT !.props = Props(Data(H(4)), NoDesc, NoDesc)]]

InitCycle == InitWith({CycleHeap(marker) : marker \in {NoDesc, Marker}}, {NoDistortion})

NextCycle ==
    \/ \E h \in HostIds : ToGuest(h)
    \/ \E w \in 1..Len(prox) : StaticGuestRead(w)

SpecCycle == InitCycle /\ [][NextCycle]_vars

\* proxy w is registered for its host value in both maps
Registered(w) == redMap[w] = prox[w].target /\ blueMap[prox[w].target] = w

\* the completion r did not run out of stack
Terminates(r) == r.exc # StackOverflow

\* C28: every proxy is registered for its host value from the state in which it appears,
\* initialized or not; the conversion of every host value and every read through a proxy
\* complete; and a read of an attribute, or of the parent, that holds a host value which
\* has a proxy returns that proxy: following a cycle leads back to the proxy it started from.
C28_CyclesResolveToSameProxy ==
    /\ \A w \in 1..Len(prox) : Registered(w)
    /\ \A h \in HostIds : Terminates(Call("getRedValue", <<Here, H(h), MaxDepth>>))
    /\ \A w \in 1..Len(prox) :
        LET o == host[prox[w].target] IN
        /\ \A key \in DataKeys :
            LET r == Call("ProxyGet", <<Here, w, key, W(w), MaxDepth>>)
            IN /\ Terminates(r)
               /\ (o.props[key].k = "data" /\ IsHost(o.props[key].v)
                      /\ blueMap[o.props[key].v[2]] # 0 /\ ~r.m.ovf)
                    => Seen(r) = <<"returned", W(blueMap[o.props[key].v[2]])>>
        /\ LET r == Call("ProxyGetPrototypeOf", <<Here, w, MaxDepth>>)
           IN /\ Terminates(r)
              /\ (IsHost(o.proto) /\ blueMap[o.proto[2]] # 0 /\ ~r.m.ovf)
                    => Seen(r) = <<"returned", W(blueMap[o.proto[2]])>>

\* C28 witness: the first operation on the proxy of host object 1, a read of x, has
\* initialized it and returned that same proxy; y holds the proxy minted for host object 2
C28_Witness ==
    /\ last.op = "get"
    /\ last.key = "x"
    /\ guestOps = 2
    /\ prox[last.w].target = 1
    /\ prox[last.w].handler = "static"
    /\ prox[last.w].init
    /\ Seen(last) = <<"returned", W(last.w)>>
    /\ prox[last.w].shadow.props["x"].v = W(last.w)
    /\ IsWrap(prox[last.w].shadow.props["y"].v)
    /\ prox[prox[last.w].shadow.props["y"].v[2]].target = 2

(***************************************************************************)
(* The aggregation of the global descriptors: the keys of the window of    *)
(* the sandbox, the descriptors of the blue window and the endowments are  *)
(* chosen initially; the aggregation runs once.                            *)
(***************************************************************************)
DescriptorMap(keys, descriptor(_)) ==
    [key \in GlobalNames |-> IF key \in keys THEN descriptor(key) ELSE Absent]

WindowInputs ==
    {[NoWindow EXCEPT !.redOwnKeys = base \cup unforgeable,
                      !.blueDescriptors = DescriptorMap(GlobalNames \ missing, BlueDescriptor),
                      !.endowmentsDescriptors = DescriptorMap(endowed, EndowmentDescriptor)] :
        base \in SUBSET {"alert", "Object", "expando"},
        unforgeable \in {{}, {"location"}, {"crypto"}, UnforgeableNames},
        missing \in {{}, {"expando"}},
        endowed \in SUBSET {"alert", "expando", "location", "chrome"}}

InitWindow ==
    /\ host = StaticHeap(NoDesc)
    /\ distortionMap = NoDistortion
    /\ prox = <<>>
    /\ blueMap = [h \in HostIds |-> 0]
    /\ redMap = [w \in ProxIds |-> 0]
    /\ garr = <<>>
    /\ handed = [h \in HostIds |-> {}]
    /\ hostOps = 0
    /\ guestOps = 0
    /\ last = NoLast
    /\ win \in WindowInputs

Aggregate ==
    /\ ~win.aggregated
    /\ win' = [win EXCEPT !.to = aggregateWindowDescriptors(win.redOwnKeys, win.blueDescriptors,
                                                            win.endowmentsDescriptors),
                          !.aggregated = TRUE]
    /\ UNCHANGED <<host, prox, blueMap, redMap, distortionMap, garr, handed, hostOps, guestOps, last>>

NextWindow == Aggregate

SpecWindow == InitWindow /\ [][NextWindow]_vars

\* C29: the aggregated map has no unforgeable name, endowed or not; for every other key of
\* the sandbox window that is no intrinsic name and that the blue window has, it holds the
\* endowment descriptor when the endowments have the key and the blue descriptor otherwise.
C29_AggregatedDescriptors ==
    win.aggregated =>
        \A key \in GlobalNames :
            /\ key \in UnforgeableNames => win.to[key] = Absent
            /\ (key \notin UnforgeableNames /\ key \in win.redOwnKeys /\ ~isIntrinsicGlobalName(key)
                    /\ win.blueDescriptors[key] # Absent)
                => win.to[key] = IF win.endowmentsDescriptors[key] # Absent
                                 THEN win.endowmentsDescriptors[key]
                                 ELSE win.blueDescriptors[key]

\* C29 witness: the endowments supplied location and alert; the aggregated map has the
\* endowed alert, the blue expando, and neither location nor crypto
C29_Witness ==
    /\ win.aggregated
    /\ win.redOwnKeys = {"alert", "expando", "Object"} \cup UnforgeableNames
    /\ win.endowmentsDescriptors["location"] = EndowmentDescriptor("location")
    /\ win.to["location"] = Absent
    /\ win.to["crypto"] = Absent
    /\ win.to["alert"] = EndowmentDescriptor("alert")
    /\ win.to["expando"] = BlueDescriptor("expando")

(***************************************************************************)
(* Construction: a frozen host constructor whose x is host 3 (1), a host    *)
(* constructor that carries the marker (2), a host constructor (3) and a   *)
(* host arrow function (4).  The guest constructs through the proxies, and the        *)
(* construct trap is also called without a newTarget.                      *)
(***************************************************************************)
ConstructHeap ==
    [h \in HostIds |->
        IF h = 1 THEN FreezeObj([HostFunction("oracle", TRUE) EXCEPT
                                    !.props = Props(Data(H(3)), NoDesc, NoDesc)])
        ELSE InvokeHeap[h]]

InitConstruct == InitWith({ConstructHeap}, {NoDistortion})

NextConstruct ==
    \/ \E h \in HostIds : ToGuest(h)
    \/ \E w \in 1..Len(prox), oracle \in Oracles : GuestConstruct(w, oracle)
    \/ \E w \in 1..Len(prox), oracle \in Oracles : ConstructTrapWithoutNewTarget(w, oracle)

SpecConstruct == InitConstruct /\ [][NextConstruct]_vars

\* C30: the construct trap called with an undefined newTarget throws a red TypeError
\* without calling the host constructor (the construct hook consumes no oracle and
\* records no call), and the host heap, the broker maps and the red arrays are as
\* they were before the call.
C30_UndefinedNewTargetRejected ==
    [][last'.op = "constructTrap" =>
        /\ last'.exc = RedTypeError
        /\ last'.calls = <<>>
        /\ last'.oracle = NoOracle
        /\ host' = host
        /\ prox[last'.w].handler = "dynamic" =>
              /\ prox' = prox
              /\ blueMap' = blueMap
              /\ redMap' = redMap
              /\ garr' = garr]_vars

\* the trap of a dynamic and of a static handler was called without a newTarget on
\* constructors that an ordinary construction invokes
C30_Witness ==
    /\ last.op = "constructTrap"
    /\ last.exc = RedTypeError
    /\ prox[last.w].ctor
    /\ \E w \in 1..Len(prox) : prox[w].handler = "static" /\ prox[w].ctor
    /\ \E w \in 1..Len(prox) : prox[w].handler = "dynamic" /\ prox[w].ctor
    /\ guestOps = 3

(***************************************************************************)
(* Arrays that contain arrays.  Host array 1 holds a primitive, itself or  *)
(* the host object 4; host array 2 holds a primitive and host array 3,     *)
(* which holds a primitive, host array 2 or the host object 4; the host    *)
(* object 4 holds itself in x.  The host does not change them.             *)
(***************************************************************************)
ArrayCycleHeap(e1, e3) ==
    [h \in HostIds |->
        IF h = 1 THEN HostArray(<<e1>>)
        ELSE IF h = 2 THEN HostArray(<<Prim(1), H(3)>>)
        ELSE IF h = 3 THEN HostArray(<<e3>>)
        ELSE PlainObject(Props(Data(H(4)), NoDesc, NoDesc), BlueObjectProto)]

InitArrayCycle ==
    InitWith({ArrayCycleHeap(e1, e3) : e1 \in {Prim(1), H(1), H(4)}, e3 \in {Prim(1), H(2), H(4)}},
             {NoDistortion})

NextArrayCycle ==
    \/ \E h \in HostIds : ToGuest(h)
    \/ \E v \in Primitives : ToGuestPrimitive(v)

SpecArrayCycle == InitArrayCycle /\ [][NextArrayCycle]_vars

\* the host arrays that are elements of host array h
ArrayElements(h) ==
    {e[2] : e \in {host[h].elems[i] : i \in 1..Len(host[h].elems)}
                  \cap {H(a) : a \in {b \in HostIds : host[b].kind = "array"}}}

\* the host arrays reached from host array h through at most n levels of elements
RECURSIVE ArraysWithin(_, _)
ArraysWithin(h, n) ==
    IF n = 0 THEN {}
    ELSE ArrayElements(h) \cup UNION {ArraysWithin(a, n - 1) : a \in ArrayElements(h)}

\* the conversion of host array h comes back to an array it is converting
ReachesArrayCycle(h) ==
    host[h].kind = "array" /\
        \E a \in ArraysWithin(h, Cardinality(HostIds)) \cup {h} :
            a \in ArraysWithin(a, Cardinality(HostIds))

\* C31: toGuestValue of every host value completes without exhausting the stack, a host
\* array that contains itself directly or through nested arrays included.
C31_ConversionTerminates ==
    [][last'.op = "toGuest" /\ guestOps' # guestOps =>
          Terminates(last')]_vars

\* the conversions that exhaust the stack are exactly those of a host array from which an
\* array that contains itself is reached
C31_ExhaustsOnArrayCycles ==
    [][last'.op = "toGuest" /\ guestOps' # guestOps =>
          (Terminates(last') <=> ~(last'.h # 0 /\ ReachesArrayCycle(last'.h)))]_vars

\* proxy w is a dynamic wrapper whose shadow target has been locked
LockedDynamic(w) == Dynamic(w) /\ ~prox[w].shadow.ext

\* C32: in every state after the lock-down of a dynamic wrapper, the own keys of its shadow
\* target are the own keys of the host value, and ownKeys on the wrapper returns them.
C32_LockedKeysMatchHost ==
    \A w \in 1..Len(prox) : LockedDynamic(w) =>
        /\ OwnKeysOf(prox[w].shadow) = OwnKeysOf(host[prox[w].target])
        /\ EnumeratedKeys(Here, w) = <<"returned", OwnKeysOf(prox[w].shadow)>>

\* at the lock-down itself the two key sets are equal
C32_KeysEqualAtLockDown ==
    [][\A w \in 1..Len(prox) :
          (Dynamic(w) /\ prox[w].shadow.ext /\ ~prox'[w].shadow.ext) =>
              OwnKeysOf(prox'[w].shadow) = OwnKeysOf(host'[prox'[w].target])]_vars

\* C33: whenever the isExtensible trap of a dynamic handler returns, it returns true iff the
\* shadow target is extensible after the call; whenever its preventExtensions trap returns
\* true, the shadow target is non-extensible after the call; and a locked shadow target is
\* never extensible again.
C33_ExtensibilityConsistent ==
    /\ [](\A w \in 1..Len(prox) : Dynamic(w) =>
            /\ LET r == Call("RedDynamicProxyHandler_isExtensible", <<Here, w, MaxDepth>>)
               IN Bad(r) \/ (r.val = TRUE <=> r.m.prox[w].shadow.ext)
            /\ LET r == Call("RedDynamicProxyHandler_preventExtensions", <<Here, w, MaxDepth>>)
               IN Bad(r) \/ (r.val = TRUE => ~r.m.prox[w].shadow.ext))
    /\ [][\A w \in 1..Len(prox) : ~prox[w].shadow.ext => ~prox'[w].shadow.ext]_vars

\* C33 witness: after two other operations, the guest's preventExtensions on a dynamic
\* wrapper returned false because the host value, a blue Proxy, rejected the call after
\* locking its target, and the shadow target is locked
C33_Witness ==
    /\ last.op = "preventExtensions"
    /\ Dynamic(last.w)
    /\ last.exc = NoExc
    /\ last.val = FALSE
    /\ host[1].beh = "locksAndRejects"
    /\ ~host[1].ext
    /\ ~prox[last.w].shadow.ext
    /\ guestOps = 3

====
